---- MODULE Spec2Model ----
(***************************************************************************)
(* Verification model of the claude-pilot installer and hook scripts.      *)
(*                                                                         *)
(* The repository is a set of independent programs; each gets its own      *)
(* specification over its own variables:                                   *)
(*   SpecDeps       installer/steps/dependencies.py  (DependenciesStep)    *)
(*   SpecHooks      pilot/hooks/spec_plan_validator.py,                    *)
(*                  pilot/hooks/spec_verify_validator.py                   *)
(*   SpecMigration  scripts/lib/migration.py  (run_migration)              *)
(*   SpecMcp        scripts/lib/files.py  (merge_mcp_config)               *)
(*   SpecBootstrap  installer/steps/bootstrap.py  (BootstrapStep)          *)
(*   SpecRunner     installer step pipeline  (check / run / rollback)      *)
(*   SpecSession    pilot/hooks/session_end.py  (main)                     *)
(*   SpecFileChecker pilot/hooks/file_checker.py, _checkers/python.py      *)
(*   SpecShellConfig installer/steps/shell_config.py  (ShellConfigStep)    *)
(*   SpecConfig     installer/config.py  (save_config, load_config)        *)
(*   SpecRules      .claude/rules/build.py  (load_rules, build_claude_md)  *)
(*   SpecRebuild    .claude/rules/build.py run again over edited outputs   *)
(*   SpecStrip      pilot/hooks/_checkers/python.py (strip_python_comments)*)
(*   SpecPython     pilot/hooks/_checkers/python.py (check_python)         *)
(*   SpecEnding     pilot/hooks/session_end.py, sessions ending together   *)
(***************************************************************************)
EXTENDS Integers, Sequences, FiniteSets, TLC

(***************************************************************************)
(* Dependencies step: state                                                *)
(***************************************************************************)
VARIABLES
    onPath,          \* binaries a PATH lookup finds when the step looks them up
    nvmDir,          \* ~/.nvm exists
    uvRunnable,      \* exec of "uv" by this process finds a binary
    install_python,  \* ctx.install_python
    dep_pc,          \* position of DependenciesStep.run
    cmd,             \* command _run_bash_with_retry is running, or "none"
    attempt,         \* loop variable of _run_bash_with_retry
    py_i,            \* loop position of install_python_tools (1..3)
    executions,      \* per command: times the subprocess was started
    sleeps,          \* per command: times time.sleep(RETRY_DELAY) was called
    lastWasSleep,    \* the latest step of the current retry loop was a sleep
    retry_returned,  \* per command: what _run_bash_with_retry returned, or "none"
    attempted,       \* tools handed to _install_with_spinner
    result,          \* per tool: "none" | "installed" (success) | "warning"
    installed,       \* local list `installed`
    installed_dependencies  \* ctx.config["installed_dependencies"] or "unset"

depVars == <<onPath, nvmDir, uvRunnable, install_python, dep_pc, cmd, attempt,
             py_i, executions, sleeps, lastWasSleep, retry_returned, attempted,
             result, installed, installed_dependencies>>

(***************************************************************************)
(* Stop hooks (spec_plan_validator, spec_verify_validator): state          *)
(***************************************************************************)
VARIABLES
    stdin,       \* what json.load(sys.stdin) meets
    waiting,     \* what is_waiting_for_user_input(transcript_path) returns
    plans_dir,   \* <project_root>/docs/plans: "absent" | "no_today" | "today"
    plan_json,   \* ~/.pilot/sessions/<id>/active_plan.json
    plan_file,   \* the plan file plan_json points to
    plan_rc,     \* outcome of spec_plan_validator.main
    verify_rc    \* outcome of spec_verify_validator.main

hookVars == <<stdin, waiting, plans_dir, plan_json, plan_file, plan_rc, verify_rc>>

(***************************************************************************)
(* Migration (scripts/lib/migration.py): state                             *)
(***************************************************************************)
VARIABLES
    rules,            \* the tree under .claude/rules
    backups,          \* the .claude/rules.backup.<timestamp> directories, oldest first
    non_interactive,  \* argument of the current run_migration call
    stdin_line,       \* the line input() read, before .strip()
    reply,            \* local `reply`
    mig_pc,           \* position of run_migration
    mig_k,            \* iteration of the two nested flatten loops (1..6)
    outcome,          \* how the latest call ended: "returned" | "exit1" | "raised"
    confirmed,        \* the latest call passed the confirmation
    calls,            \* run_migration calls so far
    prompts,          \* input() calls of the latest call
    pre,              \* `rules` when the latest call began
    pre_backups       \* Len(backups) when the latest call began

migVars == <<rules, backups, non_interactive, stdin_line, reply, mig_pc, mig_k,
             outcome, confirmed, calls, prompts, pre, pre_backups>>

(***************************************************************************)
(* MCP configuration merge (scripts/lib/files.py): state                   *)
(***************************************************************************)
VARIABLES
    dest_file,    \* the destination file (.mcp.json)
    repo_file,    \* what downloads.download_file would fetch into temp_file
    dest_before,  \* dest_file when merge_mcp_config was called
    mcp_result    \* "none" | "True" | "False": what merge_mcp_config returned

mcpVars == <<dest_file, repo_file, dest_before, mcp_result>>

(***************************************************************************)
(* Bootstrap step (installer/steps/bootstrap.py): state                    *)
(***************************************************************************)
VARIABLES
    claude_dir,       \* <project_dir>/.claude: [exists, content]
    backup_dirs,      \* <project_dir>/.claude.backup.<timestamp>, per timestamp
    now,              \* datetime.now(), in seconds
    local_mode,       \* ctx.local_mode
    ctx_is_upgrade,   \* ctx.config["is_upgrade"]: "unset" | "True" | "False"
    ctx_backup_path,  \* ctx.config.get("backup_path"): <<>> (None) or <<timestamp>>
    boot_runs,        \* BootstrapStep.run calls so far
    boot_pre,         \* claude_dir when the latest run began
    boot_copied,      \* the latest run's shutil.copytree succeeded
    boot_last,        \* the latest operation: "none" | "run" | "write" | "rollback"
    boot_rollbacks    \* rollbacks since the latest run: 0, 1, 2 (two or more)

bootVars == <<claude_dir, backup_dirs, now, local_mode, ctx_is_upgrade,
              ctx_backup_path, boot_runs, boot_pre, boot_copied, boot_last,
              boot_rollbacks>>

(***************************************************************************)
(* Installer step runner: state                                            *)
(***************************************************************************)
VARIABLES
    runner_pc,      \* "idle" | "check" | "run" | "rollback" | "done" | "failed"
    step_i,         \* position in Steps of the step being visited
    events,         \* the calls of this invocation: [op, step, result]
    run_completed,  \* steps whose run completed in this invocation, in order
    rb_k,           \* position in run_completed of the next step to roll back
    ran,            \* steps whose run has completed on this system so far
    invocations     \* installer invocations so far

runVars == <<runner_pc, step_i, events, run_completed, rb_k, ran, invocations>>

(***************************************************************************)
(* Session end hook (pilot/hooks/session_end.py): state                    *)
(***************************************************************************)
VARIABLES
    plugin_root,   \* CLAUDE_PLUGIN_ROOT is set in os.environ
    sessions,      \* active session marker directories on disk
    worker,        \* "running" | "stopped"
    end_calls,     \* session_end.main calls so far
    end_count,     \* what _get_active_session_count returned to the latest call
    stop_calls,    \* worker-stop commands the latest call issued
    end_rc         \* its return value: <<>> before any call, else <<rc>>

sessVars == <<plugin_root, sessions, worker, end_calls, end_count, stop_calls, end_rc>>

(***************************************************************************)
(* File checker hook (pilot/hooks/file_checker.py, _checkers): state       *)
(***************************************************************************)
VARIABLES
    edited_file,       \* get_edited_file_from_stdin(): [given, name, exists]
    has_ruff,          \* shutil.which("ruff") finds a binary
    has_basedpyright,  \* shutil.which("basedpyright") finds a binary
    ruff_issues,       \* lines of ruff's output that match the error pattern
    pyright_errors,    \* summary.errorCount of basedpyright's JSON output
    fc_pc,             \* "start" | "returned"
    checker_calls,     \* the checkers main has called, in order
    checker_returned,  \* what the latest checker returned: [status, reason]
    fc_stdout,         \* the JSON objects written to standard output
    fc_rc              \* main's return value: <<>> before it returns

fcVars == <<edited_file, has_ruff, has_basedpyright, ruff_issues, pyright_errors,
            fc_pc, checker_calls, checker_returned, fc_stdout, fc_rc>>

(***************************************************************************)
(* Shell config step (installer/steps/shell_config.py): state              *)
(***************************************************************************)
VARIABLES
    rc_file,      \* the lines of the shell rc file
    shell_type,   \* "bash" | "fish"
    sc_runs,      \* ShellConfigStep.run calls so far
    rm_calls,     \* direct remove_old_alias calls so far
    sc_last,      \* the latest operation: "none" | "run" | "remove"
    rc_before,    \* the file before the latest operation
    rm_result     \* what the latest direct remove_old_alias call returned

scVars == <<rc_file, shell_type, sc_runs, rm_calls, sc_last, rc_before, rm_result>>

(***************************************************************************)
(* Installer preferences (installer/config.py): state                      *)
(***************************************************************************)
VARIABLES
    config_json,    \* ~/.pilot/config.json: [exists, object]
    cfg_ops,        \* save_config / load_config calls so far
    cfg_last,       \* the latest call: "none" | "save" | "load"
    cfg_prev,       \* the call before it
    saved_input,    \* the mapping given to the latest save_config
    load_result     \* the mapping the latest load_config returned

cfgVars == <<config_json, cfg_ops, cfg_last, cfg_prev, saved_input, load_result>>

(***************************************************************************)
(* Rule builder (.claude/rules/build.py): state                            *)
(***************************************************************************)
VARIABLES
    rule_listing,     \* per category, the *.md files in the order glob lists them
    claude_md,        \* .claude/CLAUDE.md, as segments
    claude_local_md,  \* <project_root>/CLAUDE.local.md, as segments
    rb_pc,            \* "start" | "done" | "edited"
    rb_builds,        \* how many times the builder has run
    rb_first,         \* the two documents as the first build wrote them
    rb_edits          \* how many hand edits the documents have had

rbVars == <<rule_listing, claude_md, claude_local_md, rb_pc, rb_builds, rb_first,
            rb_edits>>

(***************************************************************************)
(* Comment stripping (pilot/hooks/_checkers/python.py): state              *)
(***************************************************************************)
VARIABLES
    py_source,     \* the text of the Python file, as a sequence of atoms
    py_original,   \* the text before strip_python_comments was called
    strip_pc,      \* "start" | "done"
    strip_return   \* "none" | "True" | "False" | "IndentationError"

stripVars == <<py_source, py_original, strip_pc, strip_return>>

(***************************************************************************)
(* check_python (pilot/hooks/_checkers/python.py): state                   *)
(***************************************************************************)
VARIABLES
    chk_name,         \* file_path.name
    chk_source,       \* the text of the file, as atoms
    chk_before,       \* the text when check_python was called
    chk_ruff_bin,     \* shutil.which("ruff") finds a binary
    chk_pyright_bin,  \* shutil.which("basedpyright") finds a binary
    chk_ruff,         \* the lines of ruff's output that name an error
    chk_pyright,      \* summary.errorCount of basedpyright's output
    chk_pc,           \* "start" | "returned" | "raised"
    chk_return        \* what check_python returned

chkVars == <<chk_name, chk_source, chk_before, chk_ruff_bin, chk_pyright_bin,
             chk_ruff, chk_pyright, chk_pc, chk_return>>

(***************************************************************************)
(* Sessions ending side by side (pilot/hooks/session_end.py): state        *)
(***************************************************************************)
VARIABLES
    ses_pc,       \* per session: "none" | "active" | "ending" | "counted" | "done"
    ses_marker,   \* per session: its marker directory is on disk
    ses_count,    \* per session: what _get_active_session_count returned to it
    conc_worker,  \* the worker process: "running" | "stopped"
    stops,        \* the sessions whose session-end issued the worker stop
    early_stop    \* a stop was issued while a session that had not begun
                  \* ending was active

concVars == <<ses_pc, ses_marker, ses_count, conc_worker, stops, early_stop>>

vars == <<depVars, hookVars, migVars, mcpVars, bootVars, runVars, sessVars,
          fcVars, scVars, cfgVars, rbVars, stripVars, chkVars, concVars>>

\* each program leaves the state of the others alone
DepsFrame == UNCHANGED <<hookVars, migVars, mcpVars, bootVars, runVars,
                         sessVars, fcVars, scVars, cfgVars, rbVars,
                         stripVars, chkVars, concVars>>

HooksFrame == UNCHANGED <<depVars, migVars, mcpVars, bootVars, runVars,
                          sessVars, fcVars, scVars, cfgVars, rbVars,
                          stripVars, chkVars, concVars>>

MigFrame == UNCHANGED <<depVars, hookVars, mcpVars, bootVars, runVars,
                        sessVars, fcVars, scVars, cfgVars, rbVars,
                        stripVars, chkVars, concVars>>

McpFrame == UNCHANGED <<depVars, hookVars, migVars, bootVars, runVars,
                        sessVars, fcVars, scVars, cfgVars, rbVars,
                        stripVars, chkVars, concVars>>

BootFrame == UNCHANGED <<depVars, hookVars, migVars, mcpVars, runVars,
                         sessVars, fcVars, scVars, cfgVars, rbVars,
                         stripVars, chkVars, concVars>>

RunFrame == UNCHANGED <<depVars, hookVars, migVars, mcpVars, bootVars,
                        sessVars, fcVars, scVars, cfgVars, rbVars,
                        stripVars, chkVars, concVars>>

SessFrame == UNCHANGED <<depVars, hookVars, migVars, mcpVars, bootVars,
                         runVars, fcVars, scVars, cfgVars, rbVars,
                         stripVars, chkVars, concVars>>

FcFrame == UNCHANGED <<depVars, hookVars, migVars, mcpVars, bootVars,
                       runVars, sessVars, scVars, cfgVars, rbVars,
                       stripVars, chkVars, concVars>>

ScFrame == UNCHANGED <<depVars, hookVars, migVars, mcpVars, bootVars,
                       runVars, sessVars, fcVars, cfgVars, rbVars,
                       stripVars, chkVars, concVars>>

CfgFrame == UNCHANGED <<depVars, hookVars, migVars, mcpVars, bootVars,
                        runVars, sessVars, fcVars, scVars, rbVars,
                        stripVars, chkVars, concVars>>

RbFrame == UNCHANGED <<depVars, hookVars, migVars, mcpVars, bootVars,
                       runVars, sessVars, fcVars, scVars, cfgVars,
                       stripVars, chkVars, concVars>>

StripFrame == UNCHANGED <<depVars, hookVars, migVars, mcpVars, bootVars,
                          runVars, sessVars, fcVars, scVars, cfgVars,
                          rbVars, chkVars, concVars>>

ChkFrame == UNCHANGED <<depVars, hookVars, migVars, mcpVars, bootVars,
                        runVars, sessVars, fcVars, scVars, cfgVars, rbVars,
                        stripVars, concVars>>

ConcFrame == UNCHANGED <<depVars, hookVars, migVars, mcpVars, bootVars,
                         runVars, sessVars, fcVars, scVars, cfgVars,
                         rbVars, stripVars, chkVars>>

(***************************************************************************)
(* Dependencies step: constants and helpers                                *)
(***************************************************************************)
MAX_RETRIES == 3

\* binaries the step looks up
Binaries == {"node", "uv", "ruff", "mypy", "basedpyright", "claude", "qlty", "dotenvx"}

\* install_python_tools: tools = ["ruff", "mypy", "basedpyright"]
tools == <<"ruff", "mypy", "basedpyright">>

\* the shell commands handed to _run_bash_with_retry
ShellCommands == {"nvm_install_sh", "nvm_install_22", "uv_install_sh",
                  "claude_install_sh", "qlty_sh", "dotenvx_sh"}

\* the direct (no shell) subprocess of install_python_tools, one per tool
UvToolInstall(t) == "uv_tool_install_" \o t

DirectCommands == {UvToolInstall(tools[i]) : i \in 1..Len(tools)}

Commands == ShellCommands \cup DirectCommands

\* the names DependenciesStep.run appends to `installed`, in program order
StepNames == <<"nodejs", "uv", "python_tools", "claude_code", "qlty", "dotenvx">>

StepSet == {StepNames[i] : i \in 1..Len(StepNames)}

\* the tool a shell command belongs to
ToolOf(c) ==
    CASE c \in {"nvm_install_sh", "nvm_install_22"} -> "nodejs"
      [] c = "uv_install_sh" -> "uv"
      [] c = "claude_install_sh" -> "claude_code"
      [] c = "qlty_sh" -> "qlty"
      [] c = "dotenvx_sh" -> "dotenvx"

\* installer.platform_utils.command_exists: a PATH lookup
command_exists(b) == b \in onPath

\* the statement of DependenciesStep.run that follows the install of `t`
NextStep(t) ==
    CASE t = "nodejs" -> IF install_python THEN "uv" ELSE "claude_code"
      [] t = "uv" -> "python_tools"
      [] t = "python_tools" -> "claude_code"
      [] t = "claude_code" -> "qlty"
      [] t = "qlty" -> "dotenvx"
      [] t = "dotenvx" -> "end"

\* _install_with_spinner after install_fn returned r, and the caller's
\* `if ...: installed.append(name)`
Returned(t, r) ==
    /\ result' = [result EXCEPT ![t] = IF r THEN "installed" ELSE "warning"]
    /\ installed' = IF r THEN Append(installed, t) ELSE installed
    /\ dep_pc' = NextStep(t)
    /\ cmd' = "none"
    /\ attempt' = 0
    /\ lastWasSleep' = FALSE

\* _install_with_spinner calls install_fn, which starts _run_bash_with_retry(c)
StartRetry(c) ==
    /\ cmd' = c
    /\ attempt' = 0
    /\ lastWasSleep' = FALSE
    /\ UNCHANGED <<result, installed, dep_pc>>

(***************************************************************************)
(* Dependencies step: Init                                                 *)
(***************************************************************************)
DepsInit ==
    /\ onPath \in SUBSET Binaries
    /\ nvmDir \in BOOLEAN
    /\ uvRunnable = ("uv" \in onPath)
    /\ install_python \in BOOLEAN
    /\ dep_pc = "nodejs"
    /\ cmd = "none"
    /\ attempt = 0
    /\ py_i = 1
    /\ executions = [c \in Commands |-> 0]
    /\ sleeps = [c \in ShellCommands |-> 0]
    /\ lastWasSleep = FALSE
    /\ retry_returned = [c \in ShellCommands |-> "none"]
    /\ attempted = {}
    /\ result = [t \in StepSet |-> "none"]
    /\ installed = <<>>
    /\ installed_dependencies = "unset"

\* the other programs' view of the step's state
DepsIdle ==
    /\ onPath = {}
    /\ nvmDir = FALSE
    /\ uvRunnable = FALSE
    /\ install_python = FALSE
    /\ dep_pc = "idle"
    /\ cmd = "none"
    /\ attempt = 0
    /\ py_i = 1
    /\ executions = [c \in Commands |-> 0]
    /\ sleeps = [c \in ShellCommands |-> 0]
    /\ lastWasSleep = FALSE
    /\ retry_returned = [c \in ShellCommands |-> "none"]
    /\ attempted = {}
    /\ result = [t \in StepSet |-> "none"]
    /\ installed = <<>>
    /\ installed_dependencies = "unset"

(***************************************************************************)
(* Dependencies step: actions                                              *)
(***************************************************************************)
\* install_nodejs, up to the first _run_bash_with_retry
install_nodejs ==
    /\ dep_pc = "nodejs" /\ cmd = "none"
    /\ attempted' = attempted \cup {"nodejs"}
    /\ IF command_exists("node")
       THEN Returned("nodejs", TRUE)
       ELSE IF ~nvmDir
            THEN StartRetry("nvm_install_sh")
            ELSE StartRetry("nvm_install_22")
    /\ UNCHANGED <<onPath, nvmDir, uvRunnable, install_python, py_i, executions,
                   sleeps, retry_returned, installed_dependencies>>
    /\ DepsFrame

\* a faulty variant: the install command is run without the PATH lookup
InstallViaShell_NoLookup(t, bin, c) ==
    /\ dep_pc = t /\ cmd = "none"
    /\ attempted' = attempted \cup {t}
    /\ StartRetry(c)
    /\ UNCHANGED <<onPath, nvmDir, uvRunnable, install_python, py_i, executions,
                   sleeps, retry_returned, installed_dependencies>>
    /\ DepsFrame

\* install_uv / install_claude_code / install_qlty / install_dotenvx share one
\* shape: return True if the binary is found, else retry the install command
InstallViaShell(t, bin, c) ==
    /\ dep_pc = t /\ cmd = "none"
    /\ attempted' = attempted \cup {t}
    /\ IF command_exists(bin) THEN Returned(t, TRUE) ELSE StartRetry(c)
    /\ UNCHANGED <<onPath, nvmDir, uvRunnable, install_python, py_i, executions,
                   sleeps, retry_returned, installed_dependencies>>
    /\ DepsFrame

install_uv == InstallViaShell("uv", "uv", "uv_install_sh")

install_claude_code == InstallViaShell("claude_code", "claude", "claude_install_sh")

install_qlty == InstallViaShell("qlty", "qlty", "qlty_sh")

install_dotenvx == InstallViaShell("dotenvx", "dotenvx", "dotenvx_sh")

\* what the caller of _run_bash_with_retry(cmd) does with its return value r
RetryReturns(r) ==
    /\ retry_returned' = [retry_returned EXCEPT ![cmd] = IF r THEN "True" ELSE "False"]
    /\ IF cmd = "nvm_install_sh"
       THEN IF r
            THEN /\ StartRetry("nvm_install_22")
                 /\ nvmDir' = TRUE
                 /\ UNCHANGED <<onPath, uvRunnable>>
            ELSE /\ Returned("nodejs", FALSE)
                 /\ UNCHANGED <<onPath, nvmDir, uvRunnable>>
       ELSE
         /\ Returned(ToolOf(cmd), r)
         /\ UNCHANGED nvmDir
         \* a successful installer leaves its binary somewhere; whether this
         \* process's PATH covers that place is up to the environment
         /\ UNCHANGED onPath
         /\ IF r /\ cmd = "uv_install_sh"
            THEN uvRunnable' \in BOOLEAN
            ELSE UNCHANGED uvRunnable

\* a faulty variant: a sleep after every failed attempt, the last one too
sleep_after_every_failure(a) == TRUE

\* `if attempt < MAX_RETRIES - 1`: a sleep follows a failed attempt that is
\* not the last one
sleep_before_retry(a) == a < MAX_RETRIES - 1

\* one iteration of the loop of _run_bash_with_retry: subprocess.run, then
\* return True, or sleep and continue, or fall out of the loop with False
run_bash_with_retry ==
    /\ cmd # "none"
    /\ attempt < MAX_RETRIES
    /\ executions' = [executions EXCEPT ![cmd] = @ + 1]
    /\ \E ok \in BOOLEAN :
         IF ok
         THEN /\ RetryReturns(TRUE)
              /\ UNCHANGED sleeps
         ELSE /\ sleeps' = IF sleep_before_retry(attempt)
                            THEN [sleeps EXCEPT ![cmd] = @ + 1]
                            ELSE sleeps
              /\ IF attempt + 1 < MAX_RETRIES
                 THEN /\ attempt' = attempt + 1
                      /\ lastWasSleep' = sleep_before_retry(attempt)
                      /\ UNCHANGED <<cmd, result, installed, dep_pc, onPath,
                                     nvmDir, uvRunnable, retry_returned>>
                 ELSE RetryReturns(FALSE)
    /\ UNCHANGED <<install_python, py_i, attempted, installed_dependencies>>
    /\ DepsFrame

\* one iteration of the loop of install_python_tools; the subprocess is
\* ["uv", "tool", "install", tool], started without a shell and without retry.
\* A missing uv binary makes subprocess.run raise FileNotFoundError, which the
\* function's `except subprocess.CalledProcessError` does not catch.
install_python_tools ==
    /\ dep_pc = "python_tools"
    /\ attempted' = attempted \cup {"python_tools"}
    /\ IF py_i > Len(tools)
       THEN /\ Returned("python_tools", TRUE)
            /\ UNCHANGED <<py_i, executions>>
       ELSE IF command_exists(tools[py_i])
            THEN /\ py_i' = py_i + 1
                 /\ UNCHANGED <<executions, result, installed, dep_pc, cmd,
                                attempt, lastWasSleep>>
            ELSE IF ~uvRunnable
                 THEN /\ dep_pc' = "raised"
                      /\ UNCHANGED <<py_i, executions, result, installed, cmd,
                                     attempt, lastWasSleep>>
                 ELSE /\ executions' =
                            [executions EXCEPT ![UvToolInstall(tools[py_i])] = @ + 1]
                      /\ \E ok \in BOOLEAN :
                           IF ok
                           THEN /\ py_i' = py_i + 1
                                /\ UNCHANGED <<result, installed, dep_pc, cmd,
                                               attempt, lastWasSleep>>
                           ELSE /\ Returned("python_tools", FALSE)
                                /\ UNCHANGED py_i
    /\ UNCHANGED <<onPath, nvmDir, uvRunnable, install_python, sleeps,
                   retry_returned, installed_dependencies>>
    /\ DepsFrame

\* DependenciesStep.run, last statement
DependenciesStep_run_end ==
    /\ dep_pc = "end"
    /\ installed_dependencies' = installed
    /\ dep_pc' = "done"
    /\ UNCHANGED <<onPath, nvmDir, uvRunnable, install_python, cmd, attempt,
                   py_i, executions, sleeps, lastWasSleep, retry_returned,
                   attempted, result, installed>>
    /\ DepsFrame

DepsNext ==
    \/ install_nodejs
    \/ install_uv
    \/ install_python_tools
    \/ install_claude_code
    \/ install_qlty
    \/ install_dotenvx
    \/ run_bash_with_retry
    \/ DependenciesStep_run_end

(***************************************************************************)
(* Stop hooks: inputs                                                      *)
(***************************************************************************)
\* standard input: bytes that do not decode, text that is no JSON, JSON that
\* is no object (a list, a number, null, ...), or an object with the two keys
\* the hooks read ("absent": the key is missing)
StdinValues ==
    [kind : {"undecodable", "malformed", "nonobject"},
     stop_hook_active : {"absent"}, transcript_path : {"absent"}]
    \cup
    [kind : {"object"},
     stop_hook_active : {"absent", "true", "false"},
     transcript_path : {"absent", "path"}]

\* the words a plan's Status line may hold
StatusWords == {"COMPLETE", "complete", "Complete", "COMPLETED", "VERIFIED", "PENDING"}

\* active_plan.json: missing, not readable (OSError), bytes that do not decode,
\* text that is no JSON, JSON that is no object, or an object whose plan_path
\* is missing/empty, names no file, or names a file
PlanJsonValues ==
    {"absent", "unreadable", "undecodable", "malformed", "nonobject",
     "no_plan_path", "plan_path"}

\* the plan file: missing, not readable, bytes that do not decode, or text
\* whose first line-start "Status:" holds a word ("none": no such line)
PlanFileValues ==
    [kind : {"absent", "unreadable", "undecodable"}, status : {"none"}]
    \cup
    [kind : {"text"}, status : StatusWords \cup {"none"}]

\* a faulty variant: the word compared as it is written
upper_as_written(w) == w

\* str.upper on the words of StatusWords
upper(w) ==
    CASE w \in {"complete", "Complete"} -> "COMPLETE"
      [] OTHER -> w

HooksInit ==
    /\ stdin \in StdinValues
    /\ waiting \in BOOLEAN
    /\ plans_dir \in {"absent", "no_today", "today"}
    /\ plan_json \in PlanJsonValues
    /\ plan_file \in PlanFileValues
    /\ (plan_json # "plan_path" => plan_file = [kind |-> "absent", status |-> "none"])
    /\ plan_rc = "none"
    /\ verify_rc = "none"

\* the other programs' view of the hooks' state
HooksIdle ==
    /\ stdin = [kind |-> "malformed", stop_hook_active |-> "absent",
                transcript_path |-> "absent"]
    /\ waiting = FALSE
    /\ plans_dir = "absent"
    /\ plan_json = "absent"
    /\ plan_file = [kind |-> "absent", status |-> "none"]
    /\ plan_rc = "none"
    /\ verify_rc = "none"

(***************************************************************************)
(* Stop hooks: main()                                                      *)
(***************************************************************************)
\* the common head of both main(): json.load, stop_hook_active, transcript.
\* "continue" when main goes on to its own checks.
\*   json.load(sys.stdin): JSONDecodeError is caught (return 0); a decoding
\*   error of the stream is a UnicodeDecodeError and is not.
\*   input_data.get on a value that is no dict raises AttributeError.
HookHead ==
    CASE stdin.kind = "malformed" -> "exit0"
      [] stdin.kind = "undecodable" -> "raised"
      [] stdin.kind = "nonobject" -> "raised"
      [] stdin.stop_hook_active = "true" -> "exit0"
      [] stdin.transcript_path = "path" /\ waiting -> "exit0"
      [] OTHER -> "continue"

\* spec_plan_validator.main
PlanValidatorResult ==
    IF HookHead # "continue" THEN HookHead
    ELSE IF plans_dir = "absent" THEN "exit2"
    ELSE IF plans_dir = "no_today" THEN "exit2"
    ELSE "exit0"

\* spec_verify_validator.main, the try block: the value of `status`, or the
\* way the block is left.  `except (json.JSONDecodeError, OSError)` catches a
\* read error and malformed JSON; UnicodeDecodeError (ValueError) and
\* AttributeError pass through.
VerifyTryBlock ==
    CASE plan_json = "unreadable" -> "exit0"
      [] plan_json = "undecodable" -> "raised"
      [] plan_json = "malformed" -> "exit0"
      [] plan_json = "nonobject" -> "raised"
      [] plan_json = "no_plan_path" -> "exit0"
      [] plan_file.kind = "absent" -> "exit0"
      [] plan_file.kind = "unreadable" -> "exit0"
      [] plan_file.kind = "undecodable" -> "raised"
      [] plan_file.status = "none" -> "status_None"
      [] OTHER -> upper(plan_file.status)

\* spec_verify_validator.main
VerifyValidatorResult ==
    IF HookHead # "continue" THEN HookHead
    ELSE IF plan_json = "absent" THEN "exit0"
    ELSE IF VerifyTryBlock \in {"exit0", "raised"} THEN VerifyTryBlock
    ELSE IF VerifyTryBlock = "COMPLETE" THEN "exit2"
    ELSE "exit0"

spec_plan_validator_main ==
    /\ plan_rc = "none"
    /\ plan_rc' = PlanValidatorResult
    /\ UNCHANGED <<stdin, waiting, plans_dir, plan_json, plan_file, verify_rc>>
    /\ HooksFrame

spec_verify_validator_main ==
    /\ verify_rc = "none"
    /\ verify_rc' = VerifyValidatorResult
    /\ UNCHANGED <<stdin, waiting, plans_dir, plan_json, plan_file, plan_rc>>
    /\ HooksFrame

HooksNext ==
    \/ spec_plan_validator_main
    \/ spec_verify_validator_main

(***************************************************************************)
(* Migration: the rules tree                                               *)
(***************************************************************************)
\* bound of the trees a run starts from: files plus empty legacy directories
MaxEntries == 3

\* bound of the run_migration calls in a row
MaxCalls == 2

\* run_migration: for source in ["standard", "custom"]
Sources == <<"standard", "custom">>

\* a faulty variant: the legacy subdirectories in another order
OLD_SUBDIRS_reversed == <<"extended", "workflow", "core">>

OLD_SUBDIRS == <<"core", "workflow", "extended">>

SourceSet == {Sources[i] : i \in 1..Len(Sources)}

SubdirSet == {OLD_SUBDIRS[i] : i \in 1..Len(OLD_SUBDIRS)}

\* file names: a rule and a stray file such as .gitkeep
Names == {[stem |-> "x", ext |-> "md"], [stem |-> ".gitkeep", ext |-> ""]}

\* subdir_path.glob("*.md")
glob_md == {n \in Names : n.ext = "md"}

\* a file's place: <<source, ".", name>> at the parent level (rules only), or
\* <<source, old_subdir, name>>
Paths == (SourceSet \X {"."} \X glob_md) \cup (SourceSet \X SubdirSet \X Names)

LegacyDirs == SourceSet \X SubdirSet

\* the content of "no file"; a file's content is the path it had before the
\* first run, so that any two files differ
NoFile == <<>>

\* the tree holding the files F, the legacy subdirectories D, the source
\* directories S, and config.yaml if cfg
MkTree(ex, S, D, F, cfg) ==
    [exists |-> ex,
     src |-> [s \in SourceSet |-> s \in S],
     sub |-> [sd \in LegacyDirs |-> sd \in D],
     files |-> [p \in Paths |-> IF p \in F THEN p ELSE NoFile],
     config |-> cfg]

EmptyTree == MkTree(TRUE, {}, {}, {}, FALSE)

\* the subsets of S with at most k elements
RECURSIVE KSubsets(_, _)
KSubsets(S, k) ==
    IF k = 0 THEN {{}}
    ELSE LET smaller == KSubsets(S, k - 1)
         IN  smaller \cup {A \cup {x} : A \in smaller, x \in S}

\* the tree made of the entries E (files and legacy directories): a file's
\* directories exist; a source directory with nothing in it may exist too
TreesOf(E) ==
    LET F == E \cap Paths
        D == (E \cap LegacyDirs) \cup {<<p[1], p[2]>> : p \in {q \in F : q[2] # "."}}
        used == {p[1] : p \in F} \cup {sd[1] : sd \in D}
    IN  { MkTree(TRUE, S, D, F, cfg) :
            S \in {S \in SUBSET SourceSet : used \subseteq S}, cfg \in BOOLEAN }

\* the trees a run may meet, of at most k entries
InitialTrees(k) ==
    {MkTree(FALSE, {}, {}, {}, FALSE)} \cup
    UNION { TreesOf(E) : E \in KSubsets(Paths \cup LegacyDirs, k) }

\* the lines a user may type at the prompt
Lines ==
    { <<>>, <<"y">>, <<"Y">>, <<"y", "e", "s">>, <<"Y", "e", "S">>,
      <<" ", "y", " ">>, <<" ">>,
      <<"n">>, <<"N", "o">>, <<"y", "e">>, <<"y", "e", "s", "s">> }

\* str.strip
RECURSIVE lstrip(_)
lstrip(l) == IF l # <<>> /\ Head(l) = " " THEN lstrip(Tail(l)) ELSE l

RECURSIVE rstrip(_)
rstrip(l) ==
    IF l # <<>> /\ l[Len(l)] = " " THEN rstrip(SubSeq(l, 1, Len(l) - 1)) ELSE l

strip(l) == rstrip(lstrip(l))

\* str.lower, on the characters of Lines
lower_char(c) ==
    CASE c = "Y" -> "y"
      [] c = "E" -> "e"
      [] c = "S" -> "s"
      [] c = "N" -> "n"
      [] c = "O" -> "o"
      [] OTHER -> c

lower(l) == [i \in 1..Len(l) |-> lower_char(l[i])]

\* a faulty variant: the comparison without .lower()
confirms_case_sensitive(r) == r \in {<<"y">>, <<"y", "e", "s">>}

\* run_migration: `reply.lower() in ["y", "yes"]`
confirms(r) == lower(r) \in {<<"y">>, <<"y", "e", "s">>}

needs_migration(t) ==
    /\ t.exists
    /\ \E s \in SourceSet :
         /\ t.src[s]
         /\ \E d \in SubdirSet : t.sub[<<s, d>>]

\* a faulty variant: the backup holds the markdown files only
copytree_md_only(t) ==
    [t EXCEPT !.files = [p \in Paths |-> IF p[3] \in glob_md THEN t.files[p] ELSE NoFile],
              !.config = FALSE]

\* shutil.copytree(rules_dir, backup_dir): the copy
copytree(t) == t

\* a faulty variant: the move without the dest.exists() check
move_md_overwrite(t, s, d, n) ==
    [t EXCEPT !.files = [@ EXCEPT ![<<s, ".", n>>] = t.files[<<s, d, n>>],
                                  ![<<s, d, n>>] = NoFile]]

\* one iteration of `for md_file in subdir_path.glob("*.md")`
move_md(t, s, d, n) ==
    IF t.files[<<s, d, n>>] = NoFile THEN t
    ELSE IF t.files[<<s, ".", n>>] # NoFile THEN t
    ELSE [t EXCEPT !.files = [@ EXCEPT ![<<s, ".", n>>] = t.files[<<s, d, n>>],
                                       ![<<s, d, n>>] = NoFile]]

\* the loop over glob("*.md"): the names of one directory are distinct, so the
\* iterations act on different files and their order does not show
RECURSIVE move_all(_, _, _, _)
move_all(t, s, d, ns) ==
    IF ns = {} THEN t
    ELSE LET n == CHOOSE m \in ns : TRUE
         IN  move_all(move_md(t, s, d, n), s, d, ns \ {n})

\* a faulty variant: os.rmdir semantics, a directory that is not empty stays
rmtree_if_empty(t, s, d) ==
    IF \E n \in Names : t.files[<<s, d, n>>] # NoFile THEN t
    ELSE [t EXCEPT !.sub = [@ EXCEPT ![<<s, d>>] = FALSE]]

\* shutil.rmtree(subdir_path)
rmtree(t, s, d) ==
    [t EXCEPT !.sub = [@ EXCEPT ![<<s, d>>] = FALSE],
              !.files = [p \in Paths |->
                           IF p[1] = s /\ p[2] = d THEN NoFile ELSE t.files[p]]]

\* the body of `for old_subdir in OLD_SUBDIRS` for (source, old_subdir)
flatten_subdir(t, s, d) ==
    IF ~t.src[s] THEN t
    ELSE IF ~t.sub[<<s, d>>] THEN t
    ELSE rmtree(move_all(t, s, d, glob_md), s, d)

\* a faulty variant: config.yaml is kept
remove_config_never(t) == t

\* `if config_file.exists(): config_file.unlink()`
remove_config(t) == IF t.config THEN [t EXCEPT !.config = FALSE] ELSE t

\* the (source, old_subdir) of iteration k of the nested loops
LoopSource(k) == Sources[((k - 1) \div Len(OLD_SUBDIRS)) + 1]

LoopSubdir(k) == OLD_SUBDIRS[((k - 1) % Len(OLD_SUBDIRS)) + 1]

LoopLen == Len(Sources) * Len(OLD_SUBDIRS)

(***************************************************************************)
(* Migration: Init and actions                                             *)
(***************************************************************************)
MigInit ==
    /\ rules \in InitialTrees(MaxEntries)
    /\ backups = <<>>
    /\ non_interactive = FALSE
    /\ stdin_line = <<>>
    /\ reply = <<>>
    /\ mig_pc = "idle"
    /\ mig_k = 1
    /\ outcome = "none"
    /\ confirmed = FALSE
    /\ calls = 0
    /\ prompts = 0
    /\ pre = rules
    /\ pre_backups = 0

\* the other programs' view of the migration's state
MigIdle ==
    /\ rules = MkTree(FALSE, {}, {}, {}, FALSE)
    /\ backups = <<>>
    /\ non_interactive = FALSE
    /\ stdin_line = <<>>
    /\ reply = <<>>
    /\ mig_pc = "idle"
    /\ mig_k = 1
    /\ outcome = "none"
    /\ confirmed = FALSE
    /\ calls = 0
    /\ prompts = 0
    /\ pre = rules
    /\ pre_backups = 0

\* run_migration(project_dir, non_interactive): entry, `if not needs_migration`
\* and the choice of where the reply comes from
run_migration_begin ==
    /\ mig_pc = "idle"
    /\ calls < MaxCalls
    /\ \E ni \in BOOLEAN :
         /\ non_interactive' = ni
         /\ IF ~needs_migration(rules)
            THEN /\ outcome' = "returned"
                 /\ mig_pc' = "idle"
                 /\ reply' = <<>>
            ELSE /\ outcome' = "none"
                 /\ mig_pc' = IF ni THEN "decide" ELSE "input"
                 /\ reply' = IF ni THEN <<"Y">> ELSE <<>>
    /\ calls' = calls + 1
    /\ confirmed' = FALSE
    /\ stdin_line' = <<>>
    /\ pre' = rules
    /\ pre_backups' = Len(backups)
    /\ prompts' = 0
    /\ UNCHANGED <<rules, backups, mig_k>>
    /\ MigFrame

\* reply = input("Continue with migration? (Y/n): ").strip()
run_migration_input ==
    /\ mig_pc = "input"
    /\ \E l \in Lines :
         /\ stdin_line' = l
         /\ reply' = strip(l)
    /\ prompts' = prompts + 1
    /\ mig_pc' = "decide"
    /\ UNCHANGED <<rules, backups, non_interactive, mig_k, outcome, confirmed,
                   calls, pre, pre_backups>>
    /\ MigFrame

\* `if not reply: reply = "Y"`, then the test that ends in sys.exit(1).
\* Past this point the reply is not read again.
run_migration_decide ==
    /\ mig_pc = "decide"
    /\ LET r == IF reply = <<>> THEN <<"Y">> ELSE reply
       IN  IF ~confirms(r)
           THEN /\ outcome' = "exit1"
                /\ mig_pc' = "stopped"
                /\ reply' = r
                /\ UNCHANGED <<confirmed, stdin_line>>
           ELSE /\ confirmed' = TRUE
                /\ mig_pc' = "backup"
                /\ reply' = <<>>
                /\ stdin_line' = <<>>
                /\ UNCHANGED outcome
    /\ UNCHANGED <<rules, backups, non_interactive, mig_k, calls, prompts, pre,
                   pre_backups>>
    /\ MigFrame

\* shutil.copytree(rules_dir, backup_dir); an error raised by it leaves
\* run_migration, with or without a partly written backup directory
run_migration_backup ==
    /\ mig_pc = "backup"
    /\ \E ok \in BOOLEAN :
         IF ok
         THEN /\ backups' = Append(backups, [complete |-> TRUE, tree |-> copytree(rules)])
              /\ mig_pc' = "flatten"
              /\ UNCHANGED outcome
         ELSE /\ \E partial \in BOOLEAN :
                   backups' = IF partial
                              THEN Append(backups, [complete |-> FALSE, tree |-> EmptyTree])
                              ELSE backups
              /\ outcome' = "raised"
              /\ mig_pc' = "stopped"
    /\ mig_k' = 1
    /\ UNCHANGED <<rules, non_interactive, stdin_line, reply, confirmed, calls,
                   prompts, pre, pre_backups>>
    /\ MigFrame

\* one iteration of the nested loops `for source` / `for old_subdir`
run_migration_flatten ==
    /\ mig_pc = "flatten"
    /\ rules' = flatten_subdir(rules, LoopSource(mig_k), LoopSubdir(mig_k))
    /\ IF mig_k < LoopLen
       THEN /\ mig_k' = mig_k + 1
            /\ UNCHANGED mig_pc
       ELSE /\ mig_k' = 1
            /\ mig_pc' = "config"
    /\ UNCHANGED <<backups, non_interactive, stdin_line, reply, outcome,
                   confirmed, calls, prompts, pre, pre_backups>>
    /\ MigFrame

\* the removal of config.yaml, and the return
run_migration_config ==
    /\ mig_pc = "config"
    /\ rules' = remove_config(rules)
    /\ outcome' = "returned"
    /\ mig_pc' = "idle"
    /\ UNCHANGED <<backups, non_interactive, stdin_line, reply, mig_k,
                   confirmed, calls, prompts, pre, pre_backups>>
    /\ MigFrame

MigNext ==
    \/ run_migration_begin
    \/ run_migration_input
    \/ run_migration_decide
    \/ run_migration_backup
    \/ run_migration_flatten
    \/ run_migration_config

(***************************************************************************)
(* MCP configuration merge: files                                          *)
(***************************************************************************)
ServerNames == {"a", "b"}

\* a server definition is named after the file it was written in ("E": the
\* existing destination, "N": the downloaded file); "-": no such entry
NoEntry == "-"

ServerMaps(tag) == [ServerNames -> {NoEntry, tag}]

EmptyMap == [x \in ServerNames |-> NoEntry]

\* a file: kind "absent" (no file), "fail" (the download fails), "invalid" (no
\* JSON), "nonobject" (JSON, but no object) or "object"; an object has or has
\* not the keys "mcpServers" and "servers", each a map of server entries, and
\* may hold another top-level key ("other")
NoObject(k) ==
    [kind |-> k, has_mcp |-> FALSE, mcp |-> EmptyMap,
     has_srv |-> FALSE, srv |-> EmptyMap, other |-> NoEntry]

\* the objects written in file `tag`, each using at most one of the two keys
Objects(tag) ==
    { [kind |-> "object", has_mcp |-> hm, mcp |-> m, has_srv |-> hs, srv |-> v,
       other |-> o] :
        hm \in BOOLEAN, hs \in BOOLEAN, m \in ServerMaps(tag),
        v \in ServerMaps(tag), o \in {NoEntry, tag} }

OneKeyObjects(tag) ==
    { c \in Objects(tag) :
        /\ ~(c.has_mcp /\ c.has_srv)
        /\ (~c.has_mcp => c.mcp = EmptyMap)
        /\ (~c.has_srv => c.srv = EmptyMap) }

\* dict.get(server_key, {})
get_servers(c, key) ==
    CASE key = "mcpServers" -> IF c.has_mcp THEN c.mcp ELSE EmptyMap
      [] key = "servers" -> IF c.has_srv THEN c.srv ELSE EmptyMap

\* {**new_servers, **existing_servers}
merge_servers(new_servers, existing_servers) ==
    [x \in ServerNames |->
        IF existing_servers[x] # NoEntry THEN existing_servers[x] ELSE new_servers[x]]

\* the if/elif chain that picks server_key ("None" when neither file has one)
server_key(existing_config, new_config) ==
    IF existing_config.has_mcp THEN "mcpServers"
    ELSE IF existing_config.has_srv THEN "servers"
    ELSE IF new_config.has_mcp THEN "mcpServers"
    ELSE IF new_config.has_srv THEN "servers"
    ELSE "None"

\* {**new_config, **existing_config}
merge_top_level(new_config, existing_config) ==
    [kind |-> "object",
     has_mcp |-> existing_config.has_mcp \/ new_config.has_mcp,
     mcp |-> IF existing_config.has_mcp THEN existing_config.mcp ELSE new_config.mcp,
     has_srv |-> existing_config.has_srv \/ new_config.has_srv,
     srv |-> IF existing_config.has_srv THEN existing_config.srv ELSE new_config.srv,
     other |-> IF existing_config.other # NoEntry
               THEN existing_config.other ELSE new_config.other]

\* merged_config of merge_mcp_config, for two JSON objects
merged_config(existing_config, new_config) ==
    LET key == server_key(existing_config, new_config)
        top == merge_top_level(new_config, existing_config)
        merged_servers == merge_servers(get_servers(new_config, key),
                                        get_servers(existing_config, key))
    IN  CASE key = "mcpServers" -> [top EXCEPT !.has_mcp = TRUE, !.mcp = merged_servers]
          [] key = "servers" -> [top EXCEPT !.has_srv = TRUE, !.srv = merged_servers]
          [] OTHER -> top

(***************************************************************************)
(* MCP configuration merge: Init and action                                *)
(***************************************************************************)
McpInit ==
    /\ dest_file \in {NoObject("absent"), NoObject("invalid"), NoObject("nonobject")}
                     \cup OneKeyObjects("E")
    /\ repo_file \in {NoObject("fail"), NoObject("invalid"), NoObject("nonobject")}
                     \cup OneKeyObjects("N")
    /\ dest_before = dest_file
    /\ mcp_result = "none"

\* the other programs' view of the merge's state
McpIdle ==
    /\ dest_file = NoObject("absent")
    /\ repo_file = NoObject("fail")
    /\ dest_before = dest_file
    /\ mcp_result = "none"

\* a faulty variant: the destination is opened for writing before the two
\* files are parsed, so a failure leaves it empty
merge_mcp_config_write_first ==
    /\ mcp_result = "none"
    /\ dest_before' = dest_file
    /\ IF repo_file.kind = "fail"
       THEN /\ mcp_result' = "False"
            /\ UNCHANGED dest_file
       ELSE IF dest_file.kind = "absent"
       THEN /\ dest_file' = repo_file
            /\ mcp_result' = "True"
       ELSE IF dest_file.kind # "object" \/ repo_file.kind # "object"
       THEN /\ mcp_result' = "False"
            /\ dest_file' = NoObject("invalid")
       ELSE /\ dest_file' = merged_config(dest_file, repo_file)
            /\ mcp_result' = "True"
    /\ UNCHANGED repo_file
    /\ McpFrame

\* merge_mcp_config(repo_file, dest_file, config, temp_dir).  json.load of a
\* file that is no JSON raises; the membership tests and the ** unpacking
\* raise for a value that is no object; `except Exception` returns False.
merge_mcp_config ==
    /\ mcp_result = "none"
    /\ dest_before' = dest_file
    /\ IF repo_file.kind = "fail"
       THEN /\ mcp_result' = "False"
            /\ UNCHANGED dest_file
       ELSE IF dest_file.kind = "absent"
       THEN /\ dest_file' = repo_file
            /\ mcp_result' = "True"
       ELSE IF dest_file.kind # "object" \/ repo_file.kind # "object"
       THEN /\ mcp_result' = "False"
            /\ UNCHANGED dest_file
       ELSE /\ dest_file' = merged_config(dest_file, repo_file)
            /\ mcp_result' = "True"
    /\ UNCHANGED repo_file
    /\ McpFrame

McpNext == merge_mcp_config

(***************************************************************************)
(* Bootstrap step: directories                                             *)
(***************************************************************************)
\* bound of the clock: timestamps 0..MaxTime
MaxTime == 1

\* bound of the BootstrapStep.run calls on one ctx
MaxRuns == 2

Times == 0..MaxTime

\* BootstrapStep.run: subdirs
subdirs == <<"rules/standard", "rules/custom", "hooks", "commands", "skills">>

\* what mkdir(parents=True) creates for them
CreatedDirs == {"rules"} \cup {subdirs[i] : i \in 1..Len(subdirs)}

\* files of an installation: one that may be there before the run, and one
\* the steps after bootstrap write
Files == {"settings.json", "CLAUDE.md"}

NoDir == [exists |-> FALSE, content |-> {}]

Dir(c) == [exists |-> TRUE, content |-> c]

\* the .claude directories a run may meet
InitialDirs ==
    {NoDir} \cup
    { Dir(c) : c \in { c \in SUBSET {"rules", "rules/custom", "hooks", "settings.json"} :
                         "rules/custom" \in c => "rules" \in c } }

\* a faulty variant: shutil.move onto the directory that is still there puts
\* the backup inside it
restore_without_rmtree(dir, backup) ==
    IF dir.exists THEN Dir(dir.content \cup {".claude.backup"}) ELSE Dir(backup.content)

\* BootstrapStep.rollback: rmtree(claude_dir) if it exists, then
\* shutil.move(backup, claude_dir)
restore(dir, backup) == Dir(backup.content)

(***************************************************************************)
(* Bootstrap step: Init and actions                                        *)
(***************************************************************************)
BootInit ==
    /\ claude_dir \in InitialDirs
    /\ backup_dirs = [t \in Times |-> NoDir]
    /\ now = 0
    /\ local_mode \in BOOLEAN
    /\ ctx_is_upgrade = "unset"
    /\ ctx_backup_path = <<>>
    /\ boot_runs = 0
    /\ boot_pre = claude_dir
    /\ boot_copied = FALSE
    /\ boot_last = "none"
    /\ boot_rollbacks = 0

\* the other programs' view of the step's state
BootIdle ==
    /\ claude_dir = NoDir
    /\ backup_dirs = [t \in Times |-> NoDir]
    /\ now = 0
    /\ local_mode = FALSE
    /\ ctx_is_upgrade = "unset"
    /\ ctx_backup_path = <<>>
    /\ boot_runs = 0
    /\ boot_pre = claude_dir
    /\ boot_copied = FALSE
    /\ boot_last = "none"
    /\ boot_rollbacks = 0

\* a faulty variant: the path is recorded before the copy is tried
backup_path_recorded_first(copied, t, old) == <<t>>

\* ctx.config["backup_path"] = str(backup_path), the statement after
\* shutil.copytree inside the try block: skipped when the copy raised
backup_path_recorded(copied, t, old) == IF copied THEN <<t>> ELSE old

\* BootstrapStep.run.  shutil.copytree raises FileExistsError (an OSError) if
\* a directory of this second's name is there already, and may fail for other
\* reasons, leaving a partial copy or none; the except clause only warns.
BootstrapStep_run ==
    /\ boot_runs < MaxRuns
    /\ boot_runs' = boot_runs + 1
    /\ boot_pre' = claude_dir
    /\ boot_last' = "run"
    /\ boot_rollbacks' = 0
    /\ IF claude_dir.exists
       THEN /\ ctx_is_upgrade' = "True"
            /\ IF ~local_mode
               THEN \E ok \in BOOLEAN :
                      IF ok /\ ~backup_dirs[now].exists
                      THEN /\ backup_dirs' = [backup_dirs EXCEPT ![now] = Dir(claude_dir.content)]
                           /\ ctx_backup_path' =
                                  backup_path_recorded(TRUE, now, ctx_backup_path)
                           /\ boot_copied' = TRUE
                      ELSE /\ \E partial \in BOOLEAN :
                                backup_dirs' =
                                    IF partial /\ ~backup_dirs[now].exists
                                    THEN [backup_dirs EXCEPT ![now] = Dir({})]
                                    ELSE backup_dirs
                           /\ boot_copied' = FALSE
                           /\ ctx_backup_path' =
                                  backup_path_recorded(FALSE, now, ctx_backup_path)
               ELSE /\ boot_copied' = FALSE
                    /\ UNCHANGED <<backup_dirs, ctx_backup_path>>
       ELSE /\ ctx_is_upgrade' = "False"
            /\ boot_copied' = FALSE
            /\ UNCHANGED <<backup_dirs, ctx_backup_path>>
    /\ claude_dir' = Dir(claude_dir.content \cup CreatedDirs)
    /\ UNCHANGED <<now, local_mode>>
    /\ BootFrame

\* the installer steps that follow bootstrap write files under .claude
later_step_writes ==
    /\ boot_last \in {"run", "write"}
    /\ claude_dir.exists
    /\ \E f \in Files :
         claude_dir' = Dir(IF f \in claude_dir.content
                           THEN claude_dir.content \ {f}
                           ELSE claude_dir.content \cup {f})
    /\ boot_last' = "write"
    /\ UNCHANGED <<backup_dirs, now, local_mode, ctx_is_upgrade, ctx_backup_path,
                   boot_runs, boot_pre, boot_copied, boot_rollbacks>>
    /\ BootFrame

\* a faulty variant: no backup.exists() test, so a recorded backup that is
\* gone has .claude removed before shutil.move fails
BootstrapStep_rollback_unguarded ==
    /\ boot_last' = "rollback"
    /\ boot_rollbacks' = IF boot_rollbacks = 0 THEN 1 ELSE 2
    /\ IF ctx_backup_path # <<>>
       THEN /\ claude_dir' = IF backup_dirs[ctx_backup_path[1]].exists
                             THEN restore(claude_dir, backup_dirs[ctx_backup_path[1]])
                             ELSE NoDir
            /\ backup_dirs' = [backup_dirs EXCEPT ![ctx_backup_path[1]] = NoDir]
       ELSE UNCHANGED <<claude_dir, backup_dirs>>
    /\ UNCHANGED <<now, local_mode, ctx_is_upgrade, ctx_backup_path, boot_runs,
                   boot_pre, boot_copied>>
    /\ BootFrame

\* BootstrapStep.rollback
BootstrapStep_rollback ==
    /\ boot_last' = "rollback"
    /\ boot_rollbacks' = IF boot_rollbacks = 0 THEN 1 ELSE 2
    /\ IF ctx_backup_path # <<>> /\ backup_dirs[ctx_backup_path[1]].exists
       THEN /\ claude_dir' = restore(claude_dir, backup_dirs[ctx_backup_path[1]])
            /\ backup_dirs' = [backup_dirs EXCEPT ![ctx_backup_path[1]] = NoDir]
       ELSE UNCHANGED <<claude_dir, backup_dirs>>
    /\ UNCHANGED <<now, local_mode, ctx_is_upgrade, ctx_backup_path, boot_runs,
                   boot_pre, boot_copied>>
    /\ BootFrame

\* time passes
clock_tick ==
    /\ now < MaxTime
    /\ now' = now + 1
    /\ UNCHANGED <<claude_dir, backup_dirs, local_mode, ctx_is_upgrade,
                   ctx_backup_path, boot_runs, boot_pre, boot_copied, boot_last,
                   boot_rollbacks>>
    /\ BootFrame

BootNext ==
    \/ BootstrapStep_run
    \/ later_step_writes
    \/ BootstrapStep_rollback
    \/ clock_tick

(***************************************************************************)
(* Installer step runner: the steps and their check                        *)
(***************************************************************************)
\* bound of the installer invocations on one system
MaxInvocations == 2

\* the fixed order of the pipeline
Steps == <<"bootstrap", "dependencies", "config_files", "environment", "shell_config">>

StepNameSet == {Steps[i] : i \in 1..Len(Steps)}

\* a faulty variant: satisfied once the step has run
DependenciesStep_check_after_run(sys) == "dependencies" \in sys

\* DependenciesStep.check: return False
DependenciesStep_check(sys) == FALSE

\* a faulty variant: satisfied once the directories have been created
BootstrapStep_check_after_run(sys) == "bootstrap" \in sys

\* BootstrapStep.check: return False
BootstrapStep_check(sys) == FALSE

\* ShellConfigStep.check: always False, so that aliases are updated
ShellConfigStep_check(sys) == FALSE

\* the steps that must run on every invocation
AlwaysRun == {"bootstrap", "dependencies", "shell_config"}

\* the results check(ctx) of a step can give in a system where the steps
\* of sys have run; the check of ConfigFiles and of Environment is not part
\* of this model, either result is possible
check_results(s, sys) ==
    CASE s = "bootstrap" -> {BootstrapStep_check(sys)}
      [] s = "dependencies" -> {DependenciesStep_check(sys)}
      [] s = "shell_config" -> {ShellConfigStep_check(sys)}
      [] OTHER -> BOOLEAN

Event(op, s, r) == [op |-> op, step |-> s, result |-> r]

\* a faulty variant: rollback in the order of completion
rollback_start_first(done_steps) == IF done_steps = <<>> THEN 0 ELSE 1

\* rollback begins with the step that completed last
rollback_start(done_steps) == Len(done_steps)

\* the step rolled back after the one at position k (0: none left)
rollback_next(k) == k - 1

(***************************************************************************)
(* Installer step runner: Init and actions                                 *)
(***************************************************************************)
RunInit ==
    /\ runner_pc = "idle"
    /\ step_i = 1
    /\ events = <<>>
    /\ run_completed = <<>>
    /\ rb_k = 0
    /\ ran \in SUBSET StepNameSet
    /\ invocations = 0

\* the other programs' view of the runner's state
RunIdle ==
    /\ runner_pc = "idle"
    /\ step_i = 1
    /\ events = <<>>
    /\ run_completed = <<>>
    /\ rb_k = 0
    /\ ran = {}
    /\ invocations = 0

\* the runner moves on to the step after step_i
Advance ==
    IF step_i < Len(Steps)
    THEN /\ step_i' = step_i + 1
         /\ runner_pc' = "check"
    ELSE /\ step_i' = step_i
         /\ runner_pc' = "done"

\* an installer invocation begins: a new context, the first step
runner_start ==
    /\ runner_pc \in {"idle", "done", "failed"}
    /\ invocations < MaxInvocations
    /\ invocations' = invocations + 1
    /\ runner_pc' = "check"
    /\ step_i' = 1
    /\ events' = <<>>
    /\ run_completed' = <<>>
    /\ rb_k' = 0
    /\ UNCHANGED ran
    /\ RunFrame

\* step.check(ctx); a satisfied step is skipped
runner_check ==
    /\ runner_pc = "check"
    /\ \E r \in check_results(Steps[step_i], ran) :
         /\ events' = Append(events, Event("check", Steps[step_i], r))
         /\ IF r
            THEN Advance
            ELSE /\ runner_pc' = "run"
                 /\ UNCHANGED step_i
    /\ UNCHANGED <<run_completed, rb_k, ran, invocations>>
    /\ RunFrame

\* step.run(ctx): it completes, or it fails and the rollback begins
runner_run ==
    /\ runner_pc = "run"
    /\ \E ok \in BOOLEAN :
         /\ events' = Append(events, Event("run", Steps[step_i], ok))
         /\ IF ok
            THEN /\ run_completed' = Append(run_completed, Steps[step_i])
                 /\ ran' = ran \cup {Steps[step_i]}
                 /\ Advance
                 /\ UNCHANGED rb_k
            ELSE /\ runner_pc' = "rollback"
                 /\ rb_k' = rollback_start(run_completed)
                 /\ UNCHANGED <<step_i, run_completed, ran>>
    /\ UNCHANGED invocations
    /\ RunFrame

\* step.rollback(ctx) of the completed steps, one call at a time
runner_rollback ==
    /\ runner_pc = "rollback"
    /\ IF rb_k \in 1..Len(run_completed)
       THEN /\ events' = Append(events, Event("rollback", run_completed[rb_k], TRUE))
            /\ rb_k' = rollback_next(rb_k)
            /\ UNCHANGED runner_pc
       ELSE /\ runner_pc' = "failed"
            /\ UNCHANGED <<events, rb_k>>
    /\ UNCHANGED <<step_i, run_completed, ran, invocations>>
    /\ RunFrame

RunNext ==
    \/ runner_start
    \/ runner_check
    \/ runner_run
    \/ runner_rollback

(***************************************************************************)
(* Session end hook: main()                                                *)
(***************************************************************************)
\* bound of the active sessions
MaxSessions == 3

\* bound of the session_end.main calls
MaxEnds == 3

\* a faulty variant: stops the worker only when no session is left
should_stop_only_at_zero(count) == count < 1

\* the ending session is the last one
should_stop(count) == count <= 1

SessInit ==
    /\ plugin_root \in BOOLEAN
    /\ sessions \in 0..MaxSessions
    /\ worker \in {"running", "stopped"}
    /\ end_calls = 0
    /\ end_count = 0
    /\ stop_calls = 0
    /\ end_rc = <<>>

\* the other programs' view of the hook's state
SessIdle ==
    /\ plugin_root = FALSE
    /\ sessions = 0
    /\ worker = "stopped"
    /\ end_calls = 0
    /\ end_count = 0
    /\ stop_calls = 0
    /\ end_rc = <<>>

\* a session starts: its marker directory appears, the worker runs
session_start ==
    /\ sessions < MaxSessions
    /\ sessions' = sessions + 1
    /\ worker' = "running"
    /\ UNCHANGED <<plugin_root, end_calls, end_count, stop_calls, end_rc>>
    /\ SessFrame

\* a session's marker directory is removed
session_marker_removed ==
    /\ sessions > 0
    /\ sessions' = sessions - 1
    /\ UNCHANGED <<plugin_root, worker, end_calls, end_count, stop_calls, end_rc>>
    /\ SessFrame

\* session_end.main: nothing without CLAUDE_PLUGIN_ROOT; otherwise the worker
\* is stopped when at most one session is counted; the stop command may or
\* may not succeed; returns 0
session_end_main ==
    /\ end_calls < MaxEnds
    /\ end_calls' = end_calls + 1
    /\ end_count' = sessions
    /\ end_rc' = <<0>>
    /\ IF plugin_root /\ should_stop(sessions)
       THEN /\ stop_calls' = 1
            /\ \E stopped \in BOOLEAN :
                 worker' = IF stopped THEN "stopped" ELSE worker
       ELSE /\ stop_calls' = 0
            /\ UNCHANGED worker
    /\ UNCHANGED <<plugin_root, sessions>>
    /\ SessFrame

SessNext ==
    \/ session_start
    \/ session_marker_removed
    \/ session_end_main

(***************************************************************************)
(* File checker hook: checkers and main()                                  *)
(***************************************************************************)
\* bound of the issues a lint tool reports
MaxIssues == 1

FileNames == {"app.py", "test_app.py", "app.ts", "app.go", "readme.md"}

\* Path.suffix
suffix(name) ==
    CASE name \in {"app.py", "test_app.py"} -> ".py"
      [] name = "app.ts" -> ".ts"
      [] name = "app.go" -> ".go"
      [] OTHER -> ".md"

\* "test_" in file_path.name or "spec" in file_path.name
is_test_name(name) == name \in {"test_app.py", "inspect.py"}

NoFileGiven == [given |-> FALSE, name |-> "", exists |-> FALSE]

\* the reason string; the empty string has no parts
NoReason == [lang |-> "", parts |-> <<>>, file |-> ""]

Reason(lang, parts, name) == [lang |-> lang, parts |-> parts, file |-> name]

Returned2(status, reason) == [status |-> status, reason |-> reason]

\* check_python: the parts of the reason, ruff first
python_parts(ruff, pyright) ==
    (IF ruff > 0 THEN <<[count |-> ruff, tool |-> "ruff"]>> ELSE <<>>)
    \o (IF pyright > 0 THEN <<[count |-> pyright, tool |-> "basedpyright"]>> ELSE <<>>)

\* check_python(file_path): (exit_code, reason); a tool that is not
\* installed reports nothing
check_python(name, ruff_bin, pyright_bin, ruff, pyright) ==
    LET parts == python_parts(IF ruff_bin THEN ruff ELSE 0,
                              IF pyright_bin THEN pyright ELSE 0)
    IN  IF is_test_name(name) THEN Returned2(0, NoReason)
        ELSE IF ~(ruff_bin \/ pyright_bin) THEN Returned2(0, NoReason)
        ELSE IF parts # <<>> THEN Returned2(2, Reason("Python", parts, name))
        ELSE Returned2(2, NoReason)

\* what check_typescript and check_go can return
other_checker_results(lang, name) ==
    {Returned2(0, NoReason), Returned2(2, NoReason),
     Returned2(2, Reason(lang, <<[count |-> 1, tool |-> "lint"]>>, name))}

\* the lookup by extension: the checker of a suffix, "" if unsupported
checker_for(sfx) ==
    CASE sfx = ".py" -> "check_python"
      [] sfx = ".ts" -> "check_typescript"
      [] sfx = ".go" -> "check_go"
      [] OTHER -> ""

EmptyObject == [keys |-> {}, decision |-> "", reason |-> NoReason]

\* a faulty variant: the block decision without its reason
decision_object_without_reason(reason) ==
    IF reason # NoReason
    THEN [keys |-> {"decision"}, decision |-> "block", reason |-> NoReason]
    ELSE EmptyObject

\* the decision main prints for a checker's reason
decision_object(reason) ==
    IF reason # NoReason
    THEN [keys |-> {"decision", "reason"}, decision |-> "block", reason |-> reason]
    ELSE EmptyObject

FcInit ==
    /\ edited_file \in {NoFileGiven} \cup
                       [given : {TRUE}, name : FileNames, exists : BOOLEAN]
    /\ has_ruff \in BOOLEAN
    /\ has_basedpyright \in BOOLEAN
    /\ ruff_issues \in 0..MaxIssues
    /\ pyright_errors \in 0..MaxIssues
    /\ fc_pc = "start"
    /\ checker_calls = <<>>
    /\ checker_returned = Returned2(0, NoReason)
    /\ fc_stdout = <<>>
    /\ fc_rc = <<>>

\* the other programs' view of the hook's state
FcIdle ==
    /\ edited_file = NoFileGiven
    /\ has_ruff = FALSE
    /\ has_basedpyright = FALSE
    /\ ruff_issues = 0
    /\ pyright_errors = 0
    /\ fc_pc = "start"
    /\ checker_calls = <<>>
    /\ checker_returned = Returned2(0, NoReason)
    /\ fc_stdout = <<>>
    /\ fc_rc = <<>>

\* file_checker.main: no file, a missing file or an unsupported extension
\* returns 0 at once; otherwise the checker of the extension is called and
\* its reason is printed as a decision object
file_checker_main ==
    /\ fc_pc = "start"
    /\ fc_pc' = "returned"
    /\ IF ~edited_file.given \/ ~edited_file.exists
          \/ checker_for(suffix(edited_file.name)) = ""
       THEN /\ fc_rc' = <<0>>
            /\ UNCHANGED <<checker_calls, checker_returned, fc_stdout>>
       ELSE \E r \in (IF suffix(edited_file.name) = ".py"
                      THEN {check_python(edited_file.name, has_ruff, has_basedpyright,
                                         ruff_issues, pyright_errors)}
                      ELSE IF suffix(edited_file.name) = ".ts"
                      THEN other_checker_results("TypeScript", edited_file.name)
                      ELSE other_checker_results("Go", edited_file.name)) :
              /\ checker_calls' = Append(checker_calls, checker_for(suffix(edited_file.name)))
              /\ checker_returned' = r
              /\ fc_stdout' = Append(fc_stdout, decision_object(r.reason))
              /\ fc_rc' = <<0>>
    /\ UNCHANGED <<edited_file, has_ruff, has_basedpyright, ruff_issues, pyright_errors>>
    /\ FcFrame

FcNext == file_checker_main

(***************************************************************************)
(* Shell config step: lines of an rc file                                  *)
(***************************************************************************)
\* bound of the lines of an initial rc file
MaxLines == 3

\* bound of the ShellConfigStep.run calls on one file
MaxShellRuns == 2

OLD_CCP_MARKER == "# Claude CodePro alias"

CLAUDE_ALIAS_MARKER == "# Claude Pilot"

PilotAlias == "alias pilot='$HOME/.pilot/bin/pilot'"

CcpAlias == "alias ccp='$HOME/.pilot/bin/pilot'"

\* the PATH line of the alias block: ~/.pilot/bin first
PathLine(sh) ==
    IF sh = "fish"
    THEN "set -gx PATH $HOME/.pilot/bin $HOME/.bun/bin $PATH"
    ELSE "export PATH=$HOME/.pilot/bin:$HOME/.bun/bin:$PATH"

\* the PATH line earlier versions wrote
OldPathLine == "export PATH=$HOME/.bun/bin:$PATH"

MarkerLines == {OLD_CCP_MARKER, CLAUDE_ALIAS_MARKER}

\* alias <name>=... for the tracked names
AliasLines == {PilotAlias, CcpAlias, "alias ccp='old wrapper.py'",
               "alias claude='ccp'", "alias mcp-cli='claude --mcp-cli'"}

\* name() { ... } on one line
OneLineFunctions == {"mcp-cli() { command claude --mcp-cli; }"}

\* name() {   with the body on the following lines
BashFunctionHeads == {"claude() {"}

\* function name   (fish)
FishFunctionHeads == {"function claude"}

ToolPathLines == {OldPathLine, PathLine("bash"), PathLine("fish")}

\* lines of the user's own
OtherLines == {"# before", "# after", "}", "end"}

\* the kind of function block a line opens, "" if none
opens(line) ==
    IF line \in BashFunctionHeads THEN "bash"
    ELSE IF line \in FishFunctionHeads THEN "fish"
    ELSE ""

\* the line ends a block of the kind
closes(line, kind) ==
    \/ kind = "bash" /\ line = "}"
    \/ kind = "fish" /\ line = "end"

\* a marker, a tracked alias or the head of a tracked function
is_legacy(line) ==
    \/ line \in MarkerLines
    \/ line \in AliasLines
    \/ line \in OneLineFunctions
    \/ opens(line) # ""

\* get_alias_lines(shell_type): the block, the marker first
get_alias_lines(sh) == <<CLAUDE_ALIAS_MARKER, PathLine(sh), PilotAlias, CcpAlias>>

\* alias_exists_in_file
alias_exists_in_file(lines) == \E i \in 1..Len(lines) : is_legacy(lines[i])

RECURSIVE kept_lines_keep_body(_, _, _)
\* a faulty variant: only the head of a function block is deleted
kept_lines_keep_body(lines, i, inside) ==
    IF i > Len(lines) THEN <<>>
    ELSE IF is_legacy(lines[i]) THEN kept_lines_keep_body(lines, i + 1, "")
    ELSE <<i>> \o kept_lines_keep_body(lines, i + 1, "")

RECURSIVE kept_lines(_, _, _)
\* remove_old_alias, the pass over the lines: the positions kept, from
\* position i on, inside telling the kind of function block being skipped
kept_lines(lines, i, inside) ==
    IF i > Len(lines) THEN <<>>
    ELSE IF inside # ""
         THEN kept_lines(lines, i + 1, IF closes(lines[i], inside) THEN "" ELSE inside)
    ELSE IF is_legacy(lines[i])
         THEN kept_lines(lines, i + 1, opens(lines[i]))
    ELSE <<i>> \o kept_lines(lines, i + 1, "")

\* the lines at the positions
lines_at(lines, positions) == [k \in 1..Len(positions) |-> lines[positions[k]]]

\* remove_old_alias(config_file): [result, content]
remove_old_alias(lines) ==
    IF ~alias_exists_in_file(lines)
    THEN [result |-> FALSE, content |-> lines]
    ELSE [result |-> TRUE, content |-> lines_at(lines, kept_lines(lines, 1, ""))]

\* a line is not a PATH line the tool wrote
not_tool_path(line) == line \notin ToolPathLines

\* a faulty variant: the block is appended without removing what is there
configure_append_only(lines, sh) == lines \o get_alias_lines(sh)

\* ShellConfigStep.run on one rc file: what earlier versions and earlier
\* runs wrote is removed, then the alias block is appended
configure(lines, sh) ==
    SelectSeq(remove_old_alias(lines).content, not_tool_path) \o get_alias_lines(sh)

(***************************************************************************)
(* Shell config step: Init and actions                                     *)
(***************************************************************************)
InitialLineSet ==
    {"# before", "# after", "}", "end", OLD_CCP_MARKER, CLAUDE_ALIAS_MARKER,
     "alias ccp='old wrapper.py'", PilotAlias, "mcp-cli() { command claude --mcp-cli; }",
     "claude() {", "function claude", OldPathLine}

RECURSIVE SeqsUpTo(_, _)
\* the sequences over S of length at most n
SeqsUpTo(S, n) ==
    IF n = 0 THEN {<<>>}
    ELSE LET shorter == SeqsUpTo(S, n - 1)
         IN  shorter \cup {Append(s, x) : s \in shorter, x \in S}

\* rc files of earlier versions, as the tests write them
LegacyFiles ==
    {<<"# before", CLAUDE_ALIAS_MARKER, OldPathLine, PilotAlias, CcpAlias, "# after">>,
     <<CLAUDE_ALIAS_MARKER, OldPathLine, PilotAlias, CcpAlias,
       "mcp-cli() { command claude --mcp-cli; }">>,
     <<"# before", CLAUDE_ALIAS_MARKER, "claude() {", "# after", "}", "# after">>,
     <<"# before", "function claude", "# before", "end", "# after">>}

ScInit ==
    /\ shell_type \in {"bash", "fish"}
    /\ rc_file \in SeqsUpTo(InitialLineSet, MaxLines) \cup LegacyFiles
                   \cup {<<"# before">> \o get_alias_lines(shell_type) \o <<"# after">>}
    /\ sc_runs = 0
    /\ rm_calls = 0
    /\ sc_last = "none"
    /\ rc_before = rc_file
    /\ rm_result = FALSE

\* the other programs' view of the step's state
ScIdle ==
    /\ shell_type = "bash"
    /\ rc_file = <<>>
    /\ sc_runs = 0
    /\ rm_calls = 0
    /\ sc_last = "none"
    /\ rc_before = rc_file
    /\ rm_result = FALSE

\* ShellConfigStep.run, for this rc file
ShellConfigStep_run ==
    /\ sc_runs < MaxShellRuns
    /\ sc_runs' = sc_runs + 1
    /\ rc_before' = rc_file
    /\ rc_file' = configure(rc_file, shell_type)
    /\ sc_last' = "run"
    /\ UNCHANGED <<shell_type, rm_calls, rm_result>>
    /\ ScFrame

\* a direct call of remove_old_alias(config_file)
remove_old_alias_call ==
    /\ rm_calls = 0
    /\ rm_calls' = 1
    /\ rc_before' = rc_file
    /\ rc_file' = remove_old_alias(rc_file).content
    /\ rm_result' = remove_old_alias(rc_file).result
    /\ sc_last' = "remove"
    /\ UNCHANGED <<shell_type, sc_runs>>
    /\ ScFrame

ScNext ==
    \/ ShellConfigStep_run
    \/ remove_old_alias_call

(***************************************************************************)
(* Installer preferences: mappings and JSON                                *)
(***************************************************************************)
\* bound of the save_config / load_config calls
MaxConfigOps == 3

\* the allow-list
VALID_CONFIG_KEYS == {"enable_python", "enable_typescript"}

\* keys earlier versions wrote, and keys of no version
OtherKeys == {"enable_agent_browser", "old_deprecated_key"}

ConfigKeys == VALID_CONFIG_KEYS \cup OtherKeys

\* Python values of a preference
PyValues == {[type |-> "bool", text |-> "True"], [type |-> "str", text |-> "value"]}

\* json.dumps of a value
json_encode(v) ==
    IF v.type = "bool"
    THEN [type |-> "literal", text |-> (IF v.text = "True" THEN "true" ELSE "false")]
    ELSE [type |-> "string", text |-> v.text]

\* json.loads of a value
json_decode(j) ==
    IF j.type = "literal"
    THEN [type |-> "bool", text |-> (IF j.text = "true" THEN "True" ELSE "False")]
    ELSE [type |-> "str", text |-> j.text]

JsonValues == {json_encode(v) : v \in PyValues}

\* the mappings from some of the keys to the values
MappingsOver(V) == UNION {[S -> V] : S \in SUBSET ConfigKeys}

EmptyMapping == [k \in {} |-> [type |-> "str", text |-> ""]]

\* a faulty variant: every key passes
filter_nothing(m) == m

\* {k: v for k, v in m.items() if k in VALID_CONFIG_KEYS}
filter_valid(m) == [k \in DOMAIN m \cap VALID_CONFIG_KEYS |-> m[k]]

\* json.dumps / json.loads of a flat object
dumps(m) == [k \in DOMAIN m |-> json_encode(m[k])]

loads(obj) == [k \in DOMAIN obj |-> json_decode(obj[k])]

NoConfigFile == [exists |-> FALSE, object |-> EmptyMapping]

CfgInit ==
    /\ config_json \in {NoConfigFile} \cup
                       {[exists |-> TRUE, object |-> obj] : obj \in MappingsOver(JsonValues)}
    /\ cfg_ops = 0
    /\ cfg_last = "none"
    /\ cfg_prev = "none"
    /\ saved_input = EmptyMapping
    /\ load_result = EmptyMapping

\* the other programs' view of the file
CfgIdle ==
    /\ config_json = NoConfigFile
    /\ cfg_ops = 0
    /\ cfg_last = "none"
    /\ cfg_prev = "none"
    /\ saved_input = EmptyMapping
    /\ load_result = EmptyMapping

\* save_config(config): the allowed keys are written, the file replaced
save_config ==
    /\ cfg_ops < MaxConfigOps
    /\ \E config \in MappingsOver(PyValues) :
         /\ saved_input' = config
         /\ config_json' = [exists |-> TRUE, object |-> dumps(filter_valid(config))]
    /\ cfg_ops' = cfg_ops + 1
    /\ cfg_prev' = cfg_last
    /\ cfg_last' = "save"
    /\ UNCHANGED load_result
    /\ CfgFrame

\* load_config(): the allowed keys of the file, {} without a file
load_config ==
    /\ cfg_ops < MaxConfigOps
    /\ load_result' = IF config_json.exists
                      THEN filter_valid(loads(config_json.object))
                      ELSE EmptyMapping
    /\ cfg_ops' = cfg_ops + 1
    /\ cfg_prev' = cfg_last
    /\ cfg_last' = "load"
    /\ UNCHANGED <<config_json, saved_input>>
    /\ CfgFrame

CfgNext ==
    \/ save_config
    \/ load_config

(***************************************************************************)
(* Rule builder: rule files and documents                                  *)
(***************************************************************************)
\* bound of the rule files in the two directories together
MaxRules == 3

\* bound of the runs of the builder
MaxBuilds == 2

\* bound of the rule files where the outputs are edited between builds
MaxRebuildRules == 2

Categories == {"standard", "custom"}

\* filename stems, as characters
Stems == {<<"a">>, <<"a", "-", "b">>, <<"a", "b">>, <<"b">>}

\* ord(c)
ord(c) == CASE c = "-" -> 45 [] c = "a" -> 97 [] OTHER -> 98

RECURSIVE LexLess(_, _)
\* s < t of two Python strings
LexLess(s, t) ==
    IF t = <<>> THEN FALSE
    ELSE IF s = <<>> THEN TRUE
    ELSE IF ord(Head(s)) # ord(Head(t)) THEN ord(Head(s)) < ord(Head(t))
    ELSE LexLess(Tail(s), Tail(t))

\* the rule files there can be: readable or not, the text ending in blank
\* lines or not
RuleFiles == [category : Categories, stem : Stems, readable : BOOLEAN, trailing : BOOLEAN]

FileId(f) == <<f.category, f.stem>>

\* the raw markdown of a file
read_text(f) == [origin |-> FileId(f), trailing |-> f.trailing]

\* content.rstrip()
content_rstrip(c) == [c EXCEPT !.trailing = FALSE]

NoContent == [origin |-> <<"", <<>>>>, trailing |-> FALSE]

Header(title) == [kind |-> "header", title |-> title, text |-> NoContent]

Divider == [kind |-> "divider", title |-> "", text |-> NoContent]

RuleSegment(c) == [kind |-> "rule", title |-> "", text |-> c]

RECURSIVE insert_by_stem(_, _)
\* f put before the first file of sorted_files that has a greater stem
insert_by_stem(sorted_files, f) ==
    IF sorted_files = <<>> THEN <<f>>
    ELSE IF LexLess(f.stem, Head(sorted_files).stem)
         THEN <<f>> \o sorted_files
    ELSE <<Head(sorted_files)>> \o insert_by_stem(Tail(sorted_files), f)

\* a faulty variant: the rules in the order the directory lists them
listing_order(files) == files

RECURSIVE sort_by_stem(_)
\* the rules sorted alphabetically by stem
sort_by_stem(files) ==
    IF files = <<>> THEN <<>>
    ELSE insert_by_stem(sort_by_stem(Tail(files)), Head(files))

is_readable(f) == f.readable

\* load_rules(rules_dir, category): a file that cannot be read is skipped
\* with a warning
load_rules(listing) == sort_by_stem(SelectSeq(listing, is_readable))

RECURSIVE rule_sections(_)
\* each rule's stripped content, a divider after it
rule_sections(loaded) ==
    IF loaded = <<>> THEN <<>>
    ELSE <<RuleSegment(content_rstrip(read_text(Head(loaded)))), Divider>>
         \o rule_sections(Tail(loaded))

\* build_claude_md / build_claude_local_md: the header, then the rules
build_document(title, loaded) == <<Header(title), Divider>> \o rule_sections(loaded)

\* the orders in which a directory can list the files of F
ListingsOf(F) ==
    {s \in [1..Cardinality(F) -> F] : \A i, j \in 1..Cardinality(F) : s[i] = s[j] => i = j}

\* at most k files, no two of the same directory and stem
RuleFileSets(k) ==
    {F \in KSubsets(RuleFiles, k) :
        \A f, g \in F : FileId(f) = FileId(g) => f = g}

(***************************************************************************)
(* Rule builder: Init and action                                           *)
(***************************************************************************)
\* the builder before its first run, over at most k rule files
RbInitWith(k) ==
    /\ \E F \in RuleFileSets(k) :
         rule_listing \in [standard : ListingsOf({f \in F : f.category = "standard"}),
                           custom : ListingsOf({f \in F : f.category = "custom"})]
    /\ claude_md = <<>>
    /\ claude_local_md = <<>>
    /\ rb_pc = "start"
    /\ rb_builds = 0
    /\ rb_first = <<>>
    /\ rb_edits = 0

RbInit == RbInitWith(MaxRules)

\* the builder next to somebody who edits its outputs
RebuildInit == RbInitWith(MaxRebuildRules)

\* the other programs' view of the builder's state
RbIdle ==
    /\ rule_listing = [standard |-> <<>>, custom |-> <<>>]
    /\ claude_md = <<>>
    /\ claude_local_md = <<>>
    /\ rb_pc = "start"
    /\ rb_builds = 0
    /\ rb_first = <<>>
    /\ rb_edits = 0

\* a faulty variant: the document added after what the file holds
write_append(previous, document) == previous \o document

\* output_file.write_text(content): the file holds the document and nothing
\* of what it held
write_text(previous, document) == document

\* build.py main: both documents are written from scratch
build_main ==
    /\ rb_builds < MaxBuilds
    /\ claude_md' = write_text(claude_md,
                       build_document("# Claude CodePro Rules", load_rules(rule_listing.standard)))
    /\ claude_local_md' = write_text(claude_local_md,
                       build_document("# Custom Rules", load_rules(rule_listing.custom)))
    /\ rb_pc' = "done"
    /\ rb_builds' = rb_builds + 1
    /\ rb_first' = IF rb_builds = 0 THEN <<claude_md', claude_local_md'>> ELSE rb_first
    /\ UNCHANGED <<rule_listing, rb_edits>>
    /\ RbFrame

\* a line somebody typed into a generated file
HandWritten == [kind |-> "hand", title |-> "", text |-> NoContent]

\* what a hand edit can make of a generated document
hand_edits(document) == {document \o <<HandWritten>>, <<HandWritten>> \o Tail(document), <<>>}

\* between two builds somebody edits one of the generated files
hand_edit ==
    /\ rb_pc = "done"
    /\ \/ /\ claude_md' \in hand_edits(claude_md)
          /\ UNCHANGED claude_local_md
       \/ /\ claude_local_md' \in hand_edits(claude_local_md)
          /\ UNCHANGED claude_md
    /\ rb_pc' = "edited"
    /\ rb_edits' = rb_edits + 1
    /\ UNCHANGED <<rule_listing, rb_builds, rb_first>>
    /\ RbFrame

RbNext == build_main

RebuildNext ==
    \/ build_main
    \/ hand_edit

(***************************************************************************)
(* Comment stripping: text, tokens and lines                               *)
(***************************************************************************)
\* bound of the lines of a Python file
MaxPyLines == 3

\* The text is a sequence of atoms: "x" is code, " " blanks, "#c" a comment
\* that matches no preserve pattern, "#k" one that matches (# noqa, # TODO,
\* #!...), "'#'" a string literal holding a '#', "NL" the newline, "FF" a
\* form feed (legal white space of Python source), "QQQ" the opening of a
\* triple-quoted string that is never closed, "DEDENT" code indented to a
\* level that matches no enclosing block.
CommentAtoms == {"#c", "#k"}

WhiteAtoms == {" ", "NL", "FF"}

\* the lines a file is made of
PyLineShapes ==
    { <<"x", "NL">>, <<"x", " ", "#c", "NL">>, <<"#c", "NL">>,
      <<" ", "#c", "NL">>, <<"x", " ", "#k", "NL">>, <<"#k", "NL">>,
      <<"'#'", "NL">>, <<"'#'", " ", "#c", "NL">>, <<"FF", "NL">>,
      <<"QQQ", "NL">>, <<"DEDENT", "NL">> }

RECURSIVE join(_)
\* "".join(lines)
join(lines) == IF lines = <<>> THEN <<>> ELSE Head(lines) \o join(Tail(lines))

RECURSIVE split_keepends(_, _, _)
\* the text cut after every atom of seps, the separators kept
split_keepends(content, seps, cur) ==
    IF content = <<>> THEN (IF cur = <<>> THEN <<>> ELSE <<cur>>)
    ELSE IF Head(content) \in seps
         THEN <<Append(cur, Head(content))>> \o split_keepends(Tail(content), seps, <<>>)
    ELSE split_keepends(Tail(content), seps, Append(cur, Head(content)))

\* str.splitlines(keepends=True): a form feed is a line boundary too
splitlines(content) == split_keepends(content, {"NL", "FF"}, <<>>)

\* the rows of the tokenizer: only a newline ends a row
token_rows(content) == split_keepends(content, {"NL"}, <<>>)

\* tokenize.generate_tokens: "ok", or the exception it ends with
generate_tokens(content) ==
    IF \E i \in 1..Len(content) : content[i] = "DEDENT" /\
          \A j \in 1..(i - 1) : content[j] # "QQQ"
    THEN "IndentationError"
    ELSE IF \E i \in 1..Len(content) : content[i] = "QQQ" THEN "TokenError"
    ELSE "ok"

\* the column (from 0) of the COMMENT token of a row, -1 without one
comment_col(row) ==
    IF \E c \in 1..Len(row) : row[c] \in CommentAtoms
    THEN (CHOOSE c \in 1..Len(row) : row[c] \in CommentAtoms) - 1
    ELSE -1

\* preserve_re.search(tok.string)
preserve_re_search(tok) == tok = "#k"

RECURSIVE comments_from(_, _)
\* comments_to_remove: (start_row, start_col) of the COMMENT tokens that match
\* no preserve pattern, in the order of the tokens
comments_from(rows, r) ==
    IF r > Len(rows) THEN <<>>
    ELSE LET c == comment_col(rows[r])
         IN  (IF c >= 0 /\ ~preserve_re_search(rows[r][c + 1]) THEN <<<<r, c>>>> ELSE <<>>)
             \o comments_from(rows, r + 1)

comments_to_remove(content) == comments_from(token_rows(content), 1)

RECURSIVE atoms_rstrip(_)
\* s.rstrip()
atoms_rstrip(s) ==
    IF s # <<>> /\ s[Len(s)] \in WhiteAtoms THEN atoms_rstrip(SubSeq(s, 1, Len(s) - 1)) ELSE s

\* line[:start_col].rstrip()
before_comment(line, start_col) ==
    atoms_rstrip(SubSeq(line, 1, IF start_col < Len(line) THEN start_col ELSE Len(line)))

RECURSIVE remove_comments(_, _, _)
\* the loop over reversed(comments_to_remove): a line is truncated, or noted
\* in lines_to_delete
remove_comments(new_lines, lines_to_delete, todo) ==
    IF todo = <<>> THEN [new_lines |-> new_lines, lines_to_delete |-> lines_to_delete]
    ELSE LET t == todo[Len(todo)]
             idx == t[1]
             rest == SubSeq(todo, 1, Len(todo) - 1)
         IN  IF idx > Len(new_lines) THEN remove_comments(new_lines, lines_to_delete, rest)
             ELSE IF before_comment(new_lines[idx], t[2]) # <<>>
                  THEN remove_comments(
                         [new_lines EXCEPT ![idx] = before_comment(new_lines[idx], t[2]) \o <<"NL">>],
                         lines_to_delete, rest)
             ELSE remove_comments(new_lines, lines_to_delete \cup {idx}, rest)

RECURSIVE del_lines(_, _, _)
\* del new_lines[idx] for every idx of lines_to_delete
del_lines(new_lines, lines_to_delete, i) ==
    IF i > Len(new_lines) THEN <<>>
    ELSE (IF i \in lines_to_delete THEN <<>> ELSE <<new_lines[i]>>)
         \o del_lines(new_lines, lines_to_delete, i + 1)

\* new_content of strip_python_comments for a text that tokenizes
new_content(content) ==
    LET done == remove_comments(splitlines(content), {}, comments_to_remove(content))
    IN  join(del_lines(done.new_lines, done.lines_to_delete, 1))

\* the Python files there can be: at most k lines
PySources(k) ==
    UNION { {join(ls) : ls \in [1..n -> PyLineShapes]} : n \in 0..k }

(***************************************************************************)
(* Comment stripping: Init and action                                      *)
(***************************************************************************)
StripInit ==
    /\ py_source \in PySources(MaxPyLines)
    /\ py_original = py_source
    /\ strip_pc = "start"
    /\ strip_return = "none"

\* the other programs' view of the state
StripIdle ==
    /\ py_source = <<>>
    /\ py_original = <<>>
    /\ strip_pc = "start"
    /\ strip_return = "none"

\* strip_python_comments(file_path)
strip_python_comments ==
    /\ strip_pc = "start"
    /\ strip_pc' = "done"
    /\ py_original' = py_source
    /\ LET tokens == generate_tokens(py_source)
       IN  IF tokens = "IndentationError"
           THEN /\ strip_return' = "IndentationError"
                /\ UNCHANGED py_source
           ELSE IF tokens = "TokenError" \/ comments_to_remove(py_source) = <<>>
                   \/ new_content(py_source) = py_source
           THEN /\ strip_return' = "False"
                /\ UNCHANGED py_source
           ELSE /\ strip_return' = "True"
                /\ py_source' = new_content(py_source)
    /\ StripFrame

StripNext == strip_python_comments

(***************************************************************************)
(* check_python: Init and action                                           *)
(***************************************************************************)
\* bound of the lines of the file handed to check_python
MaxCheckedLines == 1

\* a plain name, one that holds "test_" and one that holds "spec"
PyNames == {"app.py", "test_app.py", "inspect.py"}

\* no return value: check_python has not returned
NoReturn == Returned2(-1, NoReason)

\* the text strip_python_comments leaves in a file it returns from
file_after_strip(content) ==
    IF generate_tokens(content) = "ok" /\ comments_to_remove(content) # <<>>
    THEN new_content(content)
    ELSE content

ChkInit ==
    /\ chk_name \in PyNames
    /\ chk_source \in PySources(MaxCheckedLines)
    /\ chk_before = chk_source
    /\ chk_ruff_bin \in BOOLEAN
    /\ chk_pyright_bin \in BOOLEAN
    /\ chk_ruff \in 0..MaxIssues
    /\ chk_pyright \in 0..MaxIssues
    /\ chk_pc = "start"
    /\ chk_return = NoReturn

\* the other programs' view of the state
ChkIdle ==
    /\ chk_name = "app.py"
    /\ chk_source = <<>>
    /\ chk_before = <<>>
    /\ chk_ruff_bin = FALSE
    /\ chk_pyright_bin = FALSE
    /\ chk_ruff = 0
    /\ chk_pyright = 0
    /\ chk_pc = "start"
    /\ chk_return = NoReturn

\* check_python(file_path): strip_python_comments first, whose tokenizer can
\* end with an IndentationError that nothing catches, then the name test,
\* the tools and the reason
check_python_call ==
    /\ chk_pc = "start"
    /\ chk_before' = chk_source
    /\ IF generate_tokens(chk_source) = "IndentationError"
       THEN /\ chk_pc' = "raised"
            /\ UNCHANGED <<chk_source, chk_return>>
       ELSE /\ chk_pc' = "returned"
            /\ chk_source' = file_after_strip(chk_source)
            /\ chk_return' = check_python(chk_name, chk_ruff_bin, chk_pyright_bin,
                                          chk_ruff, chk_pyright)
    /\ UNCHANGED <<chk_name, chk_ruff_bin, chk_pyright_bin, chk_ruff, chk_pyright>>
    /\ ChkFrame

ChkNext == check_python_call

(***************************************************************************)
(* Sessions ending side by side: Init and actions                          *)
(***************************************************************************)
\* bound of the sessions that share the worker
MaxEnding == 3

SessionIds == 1..MaxEnding

\* _get_active_session_count(): the marker directories on disk
active_session_count == Cardinality({s \in SessionIds : ses_marker[s]})

ConcInit ==
    /\ ses_pc \in [SessionIds -> {"none", "active"}]
    /\ \E s \in SessionIds : ses_pc[s] = "active"
    /\ ses_marker = [s \in SessionIds |-> ses_pc[s] = "active"]
    /\ ses_count = [s \in SessionIds |-> 0]
    /\ conc_worker = "running"
    /\ stops = {}
    /\ early_stop = FALSE

\* the other programs' view of the state
ConcIdle ==
    /\ ses_pc = [s \in SessionIds |-> "none"]
    /\ ses_marker = [s \in SessionIds |-> FALSE]
    /\ ses_count = [s \in SessionIds |-> 0]
    /\ conc_worker = "stopped"
    /\ stops = {}
    /\ early_stop = FALSE

\* a session begins to end: its session-end hook is started
session_ends(s) ==
    /\ ses_pc[s] = "active"
    /\ ses_pc' = [ses_pc EXCEPT ![s] = "ending"]
    /\ UNCHANGED <<ses_marker, ses_count, conc_worker, stops, early_stop>>
    /\ ConcFrame

\* the marker directory of a session that is ending is removed, before or
\* after its hook counts (no lock orders the two)
marker_removed(s) ==
    /\ ses_pc[s] \in {"ending", "counted", "done"}
    /\ ses_marker[s]
    /\ ses_marker' = [ses_marker EXCEPT ![s] = FALSE]
    /\ UNCHANGED <<ses_pc, ses_count, conc_worker, stops, early_stop>>
    /\ ConcFrame

\* session_end.main of session s: count = _get_active_session_count()
session_end_counts(s) ==
    /\ ses_pc[s] = "ending"
    /\ ses_count' = [ses_count EXCEPT ![s] = active_session_count]
    /\ ses_pc' = [ses_pc EXCEPT ![s] = "counted"]
    /\ UNCHANGED <<ses_marker, conc_worker, stops, early_stop>>
    /\ ConcFrame

\* session_end.main of session s: the worker stop if count <= 1, return 0
session_end_stops(s) ==
    /\ ses_pc[s] = "counted"
    /\ ses_pc' = [ses_pc EXCEPT ![s] = "done"]
    /\ IF should_stop(ses_count[s])
       THEN /\ stops' = stops \cup {s}
            /\ conc_worker' = "stopped"
            /\ early_stop' = (early_stop \/ \E o \in SessionIds : ses_pc[o] = "active")
       ELSE UNCHANGED <<stops, conc_worker, early_stop>>
    /\ UNCHANGED <<ses_marker, ses_count>>
    /\ ConcFrame

ConcNext ==
    \E s \in SessionIds :
        \/ session_ends(s)
        \/ marker_removed(s)
        \/ session_end_counts(s)
        \/ session_end_stops(s)

(***************************************************************************)
(* Specifications: one per program, the others' state held still           *)
(***************************************************************************)
InitDeps == DepsInit /\ HooksIdle /\ MigIdle /\ McpIdle /\ BootIdle /\
    RunIdle /\ SessIdle /\ FcIdle /\ ScIdle /\ CfgIdle /\ RbIdle /\
    StripIdle /\ ChkIdle /\ ConcIdle

SpecDeps == InitDeps /\ [][DepsNext]_vars

InitHooks == HooksInit /\ DepsIdle /\ MigIdle /\ McpIdle /\ BootIdle /\
    RunIdle /\ SessIdle /\ FcIdle /\ ScIdle /\ CfgIdle /\ RbIdle /\
    StripIdle /\ ChkIdle /\ ConcIdle

SpecHooks == InitHooks /\ [][HooksNext]_vars

InitMigration == MigInit /\ DepsIdle /\ HooksIdle /\ McpIdle /\ BootIdle /\
    RunIdle /\ SessIdle /\ FcIdle /\ ScIdle /\ CfgIdle /\ RbIdle /\
    StripIdle /\ ChkIdle /\ ConcIdle

SpecMigration == InitMigration /\ [][MigNext]_vars

InitMcp == McpInit /\ DepsIdle /\ HooksIdle /\ MigIdle /\ BootIdle /\
    RunIdle /\ SessIdle /\ FcIdle /\ ScIdle /\ CfgIdle /\ RbIdle /\
    StripIdle /\ ChkIdle /\ ConcIdle

SpecMcp == InitMcp /\ [][McpNext]_vars

InitBootstrap == BootInit /\ DepsIdle /\ HooksIdle /\ MigIdle /\ McpIdle /\
    RunIdle /\ SessIdle /\ FcIdle /\ ScIdle /\ CfgIdle /\ RbIdle /\
    StripIdle /\ ChkIdle /\ ConcIdle

SpecBootstrap == InitBootstrap /\ [][BootNext]_vars

InitRunner == RunInit /\ DepsIdle /\ HooksIdle /\ MigIdle /\ McpIdle /\
    BootIdle /\ SessIdle /\ FcIdle /\ ScIdle /\ CfgIdle /\ RbIdle /\
    StripIdle /\ ChkIdle /\ ConcIdle

SpecRunner == InitRunner /\ [][RunNext]_vars

InitSession == SessInit /\ DepsIdle /\ HooksIdle /\ MigIdle /\ McpIdle /\
    BootIdle /\ RunIdle /\ FcIdle /\ ScIdle /\ CfgIdle /\ RbIdle /\
    StripIdle /\ ChkIdle /\ ConcIdle

SpecSession == InitSession /\ [][SessNext]_vars

InitFileChecker == FcInit /\ DepsIdle /\ HooksIdle /\ MigIdle /\ McpIdle /\
    BootIdle /\ RunIdle /\ SessIdle /\ ScIdle /\ CfgIdle /\ RbIdle /\
    StripIdle /\ ChkIdle /\ ConcIdle

SpecFileChecker == InitFileChecker /\ [][FcNext]_vars

InitShellConfig == ScInit /\ DepsIdle /\ HooksIdle /\ MigIdle /\ McpIdle /\
    BootIdle /\ RunIdle /\ SessIdle /\ FcIdle /\ CfgIdle /\ RbIdle /\
    StripIdle /\ ChkIdle /\ ConcIdle

SpecShellConfig == InitShellConfig /\ [][ScNext]_vars

InitConfig == CfgInit /\ DepsIdle /\ HooksIdle /\ MigIdle /\ McpIdle /\
    BootIdle /\ RunIdle /\ SessIdle /\ FcIdle /\ ScIdle /\ RbIdle /\
    StripIdle /\ ChkIdle /\ ConcIdle

SpecConfig == InitConfig /\ [][CfgNext]_vars

InitRules == RbInit /\ DepsIdle /\ HooksIdle /\ MigIdle /\ McpIdle /\
    BootIdle /\ RunIdle /\ SessIdle /\ FcIdle /\ ScIdle /\ CfgIdle /\
    StripIdle /\ ChkIdle /\ ConcIdle

SpecRules == InitRules /\ [][RbNext]_vars

InitRebuild == RebuildInit /\ DepsIdle /\ HooksIdle /\ MigIdle /\
    McpIdle /\ BootIdle /\ RunIdle /\ SessIdle /\ FcIdle /\ ScIdle /\
    CfgIdle /\ StripIdle /\ ChkIdle /\ ConcIdle

SpecRebuild == InitRebuild /\ [][RebuildNext]_vars

InitStrip == StripInit /\ DepsIdle /\ HooksIdle /\ MigIdle /\ McpIdle /\
    BootIdle /\ RunIdle /\ SessIdle /\ FcIdle /\ ScIdle /\ CfgIdle /\
    RbIdle /\ ChkIdle /\ ConcIdle

SpecStrip == InitStrip /\ [][StripNext]_vars

InitPython == ChkInit /\ DepsIdle /\ HooksIdle /\ MigIdle /\ McpIdle /\
    BootIdle /\ RunIdle /\ SessIdle /\ FcIdle /\ ScIdle /\ CfgIdle /\
    RbIdle /\ StripIdle /\ ConcIdle

SpecPython == InitPython /\ [][ChkNext]_vars

InitEnding == ConcInit /\ DepsIdle /\ HooksIdle /\ MigIdle /\ McpIdle /\
    BootIdle /\ RunIdle /\ SessIdle /\ FcIdle /\ ScIdle /\ CfgIdle /\
    RbIdle /\ StripIdle /\ ChkIdle

SpecEnding == InitEnding /\ [][ConcNext]_vars

(***************************************************************************)
(* Dependencies step: properties                                           *)
(***************************************************************************)
\* the tools DependenciesStep.run has to handle for this ctx
Applicable ==
    IF install_python THEN StepSet ELSE StepSet \ {"uv", "python_tools"}

DepsTerminated == dep_pc \in {"done", "raised"}

\* C1: whichever installations fail, DependenciesStep.run attempts every
\* applicable tool and completes normally with
\* ctx.config["installed_dependencies"] set: once the run has ended, it ended
\* by returning, every applicable tool was attempted and the key holds the
\* list of the tools that succeeded.
C1_RunCompletesWhateverFails ==
    DepsTerminated =>
        /\ dep_pc = "done"
        /\ attempted = Applicable
        /\ installed_dependencies = installed

\* the command whose failure makes step t report "not installed"
FailingCommand(t) ==
    CASE t = "nodejs" -> IF executions["nvm_install_22"] > 0
                         THEN "nvm_install_22" ELSE "nvm_install_sh"
      [] t = "uv" -> "uv_install_sh"
      [] t = "python_tools" -> UvToolInstall(tools[py_i])
      [] t = "claude_code" -> "claude_install_sh"
      [] t = "qlty" -> "qlty_sh"
      [] t = "dotenvx" -> "dotenvx_sh"

\* the commands that install binary b
CommandsOf(b) ==
    CASE b = "node" -> {"nvm_install_sh", "nvm_install_22"}
      [] b = "uv" -> {"uv_install_sh"}
      [] b = "claude" -> {"claude_install_sh"}
      [] b = "qlty" -> {"qlty_sh"}
      [] b = "dotenvx" -> {"dotenvx_sh"}
      [] OTHER -> {UvToolInstall(b)}

\* a tool found by the PATH lookup has none of its install commands run
FoundMeansNoInstall ==
    \A b \in onPath : \A c \in CommandsOf(b) : executions[c] = 0

\* the steps installed by _run_bash_with_retry
ShellSteps == StepSet \ {"python_tools"}

\* the binary a shell step looks up
BinaryOf(t) ==
    CASE t = "nodejs" -> "node"
      [] t = "uv" -> "uv"
      [] t = "claude_code" -> "claude"
      [] t = "qlty" -> "qlty"
      [] t = "dotenvx" -> "dotenvx"

\* C2 as stated: for every tool, the linters included, a tool found on PATH
\* has no install command run, and a tool is reported as not installed only
\* after its install command was run through the shell MAX_RETRIES times.
C2_EveryToolRetriedThroughShell ==
    /\ FoundMeansNoInstall
    /\ \A t \in StepSet :
         result[t] = "warning" =>
             /\ FailingCommand(t) \in ShellCommands
             /\ executions[FailingCommand(t)] = MAX_RETRIES

\* C2 amended: a tool found on PATH has no install command run.  For Node.js,
\* uv, the Claude CLI, qlty and dotenvx a failed lookup runs an install
\* command through the shell, no shell command is executed more than
\* MAX_RETRIES times, and the tool is reported as not installed only after
\* one of its commands failed MAX_RETRIES times.  A missing Python linter is
\* installed by one direct `uv tool install` with no retry: the Python tools
\* are reported as not installed after a single failed execution.
C2_ShellToolsRetriedLintersOnce ==
    /\ FoundMeansNoInstall
    /\ \A c \in ShellCommands : executions[c] <= MAX_RETRIES
    /\ \A c \in DirectCommands : executions[c] <= 1
    /\ \A t \in ShellSteps :
         /\ (result[t] # "none" /\ BinaryOf(t) \notin onPath) =>
                \E c \in CommandsOf(BinaryOf(t)) : executions[c] >= 1
         /\ result[t] = "warning" =>
                /\ BinaryOf(t) \notin onPath
                /\ executions[FailingCommand(t)] = MAX_RETRIES
    /\ result["python_tools"] = "warning" =>
         /\ tools[py_i] \notin onPath
         /\ executions[UvToolInstall(tools[py_i])] = 1

\* C2 witness: in one run a tool was found and skipped, a shell tool was
\* given up after MAX_RETRIES executions, and a linter after one.
C2_Witness ==
    /\ dep_pc = "done"
    /\ "node" \in onPath /\ result["nodejs"] = "installed"
    /\ result["dotenvx"] = "warning"
    /\ executions["dotenvx_sh"] = MAX_RETRIES
    /\ result["python_tools"] = "warning"
    /\ executions[UvToolInstall("mypy")] = 1

\* what holds of the calls of _run_bash_with_retry at every moment: no
\* command is executed more than MAX_RETRIES times; while a call has not
\* returned each of its failed attempts was followed by one sleep; a call
\* that returned True ended with the execution that succeeded, and one that
\* returned False with the MAX_RETRIES-th failure, no sleep after either
RetryCounts ==
    \A c \in ShellCommands :
        /\ executions[c] <= MAX_RETRIES
        /\ retry_returned[c] = "none" =>
               /\ sleeps[c] = executions[c]
               /\ executions[c] < MAX_RETRIES
        /\ retry_returned[c] = "True" =>
               /\ executions[c] >= 1
               /\ sleeps[c] = executions[c] - 1
        /\ retry_returned[c] = "False" =>
               /\ executions[c] = MAX_RETRIES
               /\ sleeps[c] = MAX_RETRIES - 1

\* once a call has returned, its command is not executed and not slept for
\* again
NothingAfterReturn ==
    \A c \in ShellCommands :
        retry_returned[c] # "none" =>
            /\ executions'[c] = executions[c]
            /\ sleeps'[c] = sleeps[c]
            /\ retry_returned'[c] = retry_returned[c]

\* C25: _run_bash_with_retry executes its command at most MAX_RETRIES = 3
\* times: it returns True right after the first execution that succeeds and
\* False after three failures in a row, and it sleeps only between two
\* attempts, never after a success and never after the last failure
C25_RetryBoundedSleepBetween ==
    []RetryCounts /\ [][NothingAfterReturn]_vars

\* one call returned True on its second attempt after one sleep, another
\* returned False after three executions and two sleeps
C25_Witness ==
    /\ \E c \in ShellCommands :
         retry_returned[c] = "True" /\ executions[c] = 2 /\ sleeps[c] = 1
    /\ \E c \in ShellCommands :
         retry_returned[c] = "False" /\ executions[c] = 3 /\ sleeps[c] = 2

(***************************************************************************)
(* Stop hooks: properties                                                  *)
(***************************************************************************)
\* C3: for every standard input and filesystem state both main() return 0 or
\* 2 and let no exception out; malformed JSON, JSON that is no object, and an
\* unreadable or undecodable plan file yield 0.
C3_HooksNeverRaise ==
    /\ plan_rc \in {"none", "exit0", "exit2"}
    /\ verify_rc \in {"none", "exit0", "exit2"}
    /\ (stdin.kind \in {"malformed", "nonobject"} =>
            /\ plan_rc \in {"none", "exit0"}
            /\ verify_rc \in {"none", "exit0"})
    /\ (plan_file.kind \in {"unreadable", "undecodable"} /\ HookHead = "continue" =>
            verify_rc \in {"none", "exit0"})

\* the stop is one spec_plan_validator is to block: an object on standard
\* input whose stop_hook_active is not set, a transcript that does not show
\* the assistant waiting for the user, and no plan file of today
PlanBlockCase ==
    /\ stdin.kind = "object"
    /\ stdin.stop_hook_active # "true"
    /\ ~(stdin.transcript_path = "path" /\ waiting)
    /\ plans_dir # "today"

\* C23: spec_plan_validator.main returns 2 exactly when the input is a JSON
\* object with stop_hook_active false, the transcript does not show the
\* assistant waiting, and docs/plans holds no plan file of today (or is
\* absent); in every other case it returns 0
C23_PlanValidatorBlocksExactly ==
    plan_rc # "none" => plan_rc = IF PlanBlockCase THEN "exit2" ELSE "exit0"

\* the same, for the inputs json.load makes a dict of or rejects as JSON
C23_HoldsForObjectsAndMalformedJson ==
    (plan_rc # "none" /\ stdin.kind \in {"object", "malformed"}) =>
        plan_rc = IF PlanBlockCase THEN "exit2" ELSE "exit0"

\* a hook input that is a JSON object
HookInputIsObject == stdin.kind = "object"

\* the stop is one spec_verify_validator is to block: stop_hook_active not
\* set, no waiting for the user, active_plan.json with a plan_path that names
\* an existing plan file whose first Status word is COMPLETE in any case
VerifyBlockCase ==
    /\ HookInputIsObject
    /\ stdin.stop_hook_active # "true"
    /\ ~(stdin.transcript_path = "path" /\ waiting)
    /\ plan_json = "plan_path"
    /\ plan_file.kind = "text"
    /\ plan_file.status \in {"COMPLETE", "complete", "Complete"}

\* the plan pointer, the plan path or the plan file is missing, or the plan
\* file is text without a Status line or with a status other than COMPLETE
VerifyAllowCase ==
    \/ plan_json \in {"absent", "no_plan_path"}
    \/ plan_json = "plan_path" /\ plan_file.kind = "absent"
    \/ plan_json = "plan_path" /\ plan_file.kind = "text"
         /\ plan_file.status \notin {"COMPLETE", "complete", "Complete"}

ConfirmedReturn == mig_pc = "idle" /\ outcome = "returned" /\ confirmed

\* the backup directory the latest call created holds a full copy of the
\* tree the call began with
BackupOfPre ==
    /\ Len(backups) = pre_backups + 1
    /\ backups[Len(backups)].complete
    /\ backups[Len(backups)].tree = pre

\* before the call, name n lay both in legacy subdirectory d and at the parent
\* level of source s
Conflict(s, d, n) ==
    /\ pre.files[<<s, d, n>>] # NoFile
    /\ pre.files[<<s, ".", n>>] # NoFile

\* C4: a name present in a legacy subdirectory and in its parent before a
\* confirmed run_migration: afterwards the parent file has its pre-migration
\* content and the legacy subdirectory is gone.
C4_ParentWinsOnConflict ==
    ConfirmedReturn =>
        \A s \in SourceSet, d \in SubdirSet, n \in glob_md :
            Conflict(s, d, n) =>
                /\ rules.files[<<s, ".", n>>] = pre.files[<<s, ".", n>>]
                /\ rules.files[<<s, d, n>>] = NoFile
                /\ ~rules.sub[<<s, d>>]

\* C4 witness: a confirmed run has returned from a tree with such a conflict.
C4_Witness ==
    /\ ConfirmedReturn
    /\ \E s \in SourceSet, d \in SubdirSet, n \in glob_md : Conflict(s, d, n)

\* C5: in a confirmed run the backup is a complete copy of the pre-migration
\* tree and exists before anything under rules/ is moved or deleted; if
\* creating it fails, nothing was moved or deleted.
C5_BackupBeforeAnyChange ==
    /\ (rules # pre => BackupOfPre)
    /\ (mig_pc \in {"flatten", "config"} => BackupOfPre)
    /\ (ConfirmedReturn => BackupOfPre)
    /\ (outcome = "raised" => rules = pre)

\* C5 witness: the flatten loop has changed a tree that held a rule, a stray
\* file and config.yaml.
C5_Witness ==
    /\ mig_pc = "flatten"
    /\ rules # pre
    /\ pre.config
    /\ \E p \in Paths : p[3] \notin glob_md /\ pre.files[p] # NoFile

\* the lines the claim counts as a confirmation: empty, "y" or "yes" in any
\* case, blanks around them aside
ConfirmingLines ==
    { <<>>, <<" ">>, <<"y">>, <<"Y">>, <<" ", "y", " ">>,
      <<"y", "e", "s">>, <<"Y", "e", "S">> }

\* C6: when migration is needed and the interactive reply is not a
\* confirmation, run_migration exits with status 1 having created no backup
\* and changed nothing; exactly those replies cancel; in non-interactive mode
\* no reply is read and the migration proceeds.
C6_CancelChangesNothing ==
    /\ [](outcome = "exit1" =>
            /\ ~non_interactive
            /\ stdin_line \notin ConfirmingLines
            /\ rules = pre
            /\ backups = SubSeq(backups, 1, pre_backups)
            /\ ~confirmed)
    /\ [](non_interactive => prompts = 0 /\ outcome # "exit1")
    /\ [][mig_pc = "decide" =>
            /\ (outcome' = "exit1") =
                   (~non_interactive /\ stdin_line \notin ConfirmingLines)
            /\ (outcome' # "exit1" => mig_pc' = "backup")
            /\ rules' = rules /\ backups' = backups]_vars

\* C6 witness: an interactive run was cancelled by the reply "No".
C6_Witness ==
    /\ outcome = "exit1"
    /\ stdin_line = <<"N", "o">>
    /\ needs_migration(rules)

\* the legacy subdirectories that come before d in OLD_SUBDIRS
Earlier(d) ==
    {OLD_SUBDIRS[i] : i \in {j \in 1..Len(OLD_SUBDIRS) :
                               \E k \in (j + 1)..Len(OLD_SUBDIRS) : OLD_SUBDIRS[k] = d}}

NoLegacyEntryLeft ==
    /\ \A sd \in LegacyDirs : ~rules.sub[sd]
    /\ \A p \in Paths : p[2] # "." => rules.files[p] = NoFile
    /\ ~needs_migration(rules)

\* a call that follows a returned call changes nothing and adds no backup
SecondRunIsNoOp ==
    calls >= 2 =>
        /\ mig_pc = "idle" /\ outcome = "returned" /\ ~confirmed
        /\ rules = pre
        /\ Len(backups) = pre_backups
        /\ Len(backups) <= 1

\* C7 as stated: after a confirmed run returns, every markdown file of a
\* legacy subdirectory that had no same-named file at the parent level is at
\* the parent level with its content, no legacy entry remains, and a second
\* run is a no-op.
C7_EveryUnconflictedFileMoved ==
    /\ ConfirmedReturn =>
         /\ \A s \in SourceSet, d \in SubdirSet, n \in glob_md :
              (pre.files[<<s, d, n>>] # NoFile /\ pre.files[<<s, ".", n>>] = NoFile)
                  => rules.files[<<s, ".", n>>] = pre.files[<<s, d, n>>]
         /\ NoLegacyEntryLeft
    /\ SecondRunIsNoOp

\* C7 amended: ... every markdown file of a legacy subdirectory that had no
\* same-named file at the parent level nor in an earlier legacy subdirectory
\* (order core, workflow, extended) of the same source directory is at the
\* parent level with its content; no legacy entry remains, needs_migration is
\* False, and a second run changes nothing and creates no second backup.
C7_FirstUnconflictedFileMoved ==
    /\ ConfirmedReturn =>
         /\ \A s \in SourceSet, d \in SubdirSet, n \in glob_md :
              ( /\ pre.files[<<s, d, n>>] # NoFile
                /\ pre.files[<<s, ".", n>>] = NoFile
                /\ \A e \in Earlier(d) : pre.files[<<s, e, n>>] = NoFile )
                  => rules.files[<<s, ".", n>>] = pre.files[<<s, d, n>>]
         /\ NoLegacyEntryLeft
    /\ SecondRunIsNoOp

\* C7 witness: a second run has returned after a confirmed run that moved a
\* rule up and removed a subdirectory holding a stray file.
C7_Witness ==
    /\ calls = 2 /\ mig_pc = "idle"
    /\ Len(backups) = 1 /\ backups[1].complete
    /\ \E s \in SourceSet, d \in SubdirSet, n \in glob_md :
         /\ backups[1].tree.files[<<s, d, n>>] # NoFile
         /\ rules.files[<<s, ".", n>>] = <<s, d, n>>
    /\ \E p \in Paths : p[3] \notin glob_md /\ backups[1].tree.files[p] # NoFile

\* C8: after a confirmed run_migration returns, config.yaml does not exist,
\* whichever legacy subdirectories there were and whatever was moved.
C8_ConfigYamlRemoved == ConfirmedReturn => ~rules.config

\* C8 witness: a confirmed run has returned from a tree that held config.yaml
\* and in which nothing was there to move.
C8_Witness ==
    /\ ConfirmedReturn
    /\ pre.config
    /\ \A p \in Paths : pre.files[p] = NoFile

\* the legacy subdirectories of source s that held name n before the call
HoldersOf(s, n) == {d \in SubdirSet : pre.files[<<s, d, n>>] # NoFile}

\* the first of the subdirectories D in the order core, workflow, extended
EarliestOf(D) ==
    IF "core" \in D THEN "core"
    ELSE IF "workflow" \in D THEN "workflow"
    ELSE "extended"

\* before the call, name n lay in two or more legacy subdirectories of
\* source s and not at the parent level
Duplicated(s, n) ==
    /\ Cardinality(HoldersOf(s, n)) >= 2
    /\ pre.files[<<s, ".", n>>] = NoFile

\* C28: a markdown name that lies in two or more legacy subdirectories of a
\* source directory and not at the parent: after a confirmed migration the
\* parent holds the copy of the earliest subdirectory in the order core,
\* workflow, extended, the later copies are gone with their subdirectories,
\* and their content is found in the backup directory and nowhere in the
\* rules tree
C28_EarliestSubdirWins ==
    ConfirmedReturn =>
        \A s \in SourceSet, n \in glob_md :
            Duplicated(s, n) =>
                /\ rules.files[<<s, ".", n>>] =
                       pre.files[<<s, EarliestOf(HoldersOf(s, n)), n>>]
                /\ \A d \in HoldersOf(s, n) :
                       /\ rules.files[<<s, d, n>>] = NoFile
                       /\ ~rules.sub[<<s, d>>]
                /\ \A d \in HoldersOf(s, n) \ {EarliestOf(HoldersOf(s, n))} :
                       /\ \A p \in Paths : rules.files[p] # pre.files[<<s, d, n>>]
                       /\ BackupOfPre
                       /\ backups[Len(backups)].tree.files[<<s, d, n>>] =
                              pre.files[<<s, d, n>>]

\* a confirmed migration has returned over a name that lay in workflow and
\* extended but not in core
C28_Witness ==
    /\ ConfirmedReturn
    /\ \E s \in SourceSet, n \in glob_md :
         /\ Duplicated(s, n)
         /\ HoldersOf(s, n) = {"workflow", "extended"}

(***************************************************************************)
(* MCP configuration merge: properties                                     *)
(***************************************************************************)
\* the key a file keeps its servers under ("None": neither)
KeyOf(c) ==
    IF c.has_mcp THEN "mcpServers" ELSE IF c.has_srv THEN "servers" ELSE "None"

\* the server map of a file
ServerMapOf(c) ==
    IF KeyOf(c) = "None" THEN EmptyMap ELSE get_servers(c, KeyOf(c))

MergedExisting ==
    /\ mcp_result = "True"
    /\ dest_before.kind = "object"
    /\ repo_file.kind = "object"

\* the server map of the merged file: the one under the key the existing
\* file uses, or the downloaded file's key if the existing file has none
MergedServerMap ==
    LET key == IF KeyOf(dest_before) # "None"
               THEN KeyOf(dest_before) ELSE KeyOf(repo_file)
    IN  IF key = "None" THEN EmptyMap ELSE get_servers(dest_file, key)

\* C9: after merge_mcp_config succeeds on an existing destination, every
\* server entry of the existing file keeps the existing definition and every
\* entry only the downloaded file has is in the merged file's server map,
\* whichever of the two keys each file uses.
C9_ExistingKeptNewAdded ==
    MergedExisting =>
        \A x \in ServerNames :
            /\ ServerMapOf(dest_before)[x] # NoEntry =>
                   MergedServerMap[x] = ServerMapOf(dest_before)[x]
            /\ (ServerMapOf(dest_before)[x] = NoEntry
                  /\ ServerMapOf(repo_file)[x] # NoEntry) =>
                   MergedServerMap[x] = ServerMapOf(repo_file)[x]

\* C26: merge_mcp_config never damages an existing destination on failure:
\* whenever it returns False the destination is as it was before the call;
\* it returns False when the download fails and when the existing file or
\* the downloaded file is not valid JSON; with no destination and a
\* successful download the destination becomes a copy of the downloaded
\* file and the function returns True
C26_FailureKeepsDestination ==
    mcp_result # "none" =>
        /\ (mcp_result = "False" => dest_file = dest_before)
        /\ (repo_file.kind = "fail" => mcp_result = "False")
        /\ (dest_before.kind # "absent"
              /\ (dest_before.kind = "invalid" \/ repo_file.kind = "invalid") =>
                mcp_result = "False")
        /\ (dest_before.kind = "absent" /\ repo_file.kind # "fail" =>
                mcp_result = "True" /\ dest_file = repo_file)

\* a destination with servers of its own met a download that is no JSON
C26_Witness ==
    /\ mcp_result = "False"
    /\ dest_before.kind = "object"
    /\ dest_before.has_mcp
    /\ repo_file.kind = "invalid"

(***************************************************************************)
(* Bootstrap step: properties                                              *)
(***************************************************************************)
\* the latest run was an upgrade with local_mode false whose backup copy
\* succeeded, and the first rollback after it has just been done
RolledBackAfterBackedUpRun ==
    /\ boot_last = "rollback"
    /\ boot_rollbacks = 1
    /\ boot_pre.exists
    /\ ~local_mode
    /\ boot_copied

\* C10: run followed by rollback is a round trip on an upgrade: if .claude
\* existed, local_mode is false and the backup copy succeeded, then after
\* rollback .claude has exactly its pre-run content and the timestamped
\* backup directory no longer exists.
C10_RunRollbackRoundTrip ==
    RolledBackAfterBackedUpRun =>
        /\ claude_dir = boot_pre
        /\ ctx_backup_path # <<>>
        /\ ~backup_dirs[ctx_backup_path[1]].exists

\* C10 witness: such a rollback has been done after a run that created
\* directories the installation did not have.
C10_Witness ==
    /\ RolledBackAfterBackedUpRun
    /\ "skills" \notin boot_pre.content
    /\ "settings.json" \in boot_pre.content

\* the state a completed run leaves: is_upgrade tells whether .claude was
\* there before, the five subdirectories exist, and after a successful
\* backup copy backup_path names an existing directory that holds all the
\* pre-run .claude held
AfterRun ==
    /\ ctx_is_upgrade = IF boot_pre.exists THEN "True" ELSE "False"
    /\ claude_dir.exists
    /\ \A i \in 1..Len(subdirs) : subdirs[i] \in claude_dir.content
    /\ boot_copied =>
         /\ boot_pre.exists /\ ~local_mode
         /\ ctx_backup_path # <<>>
         /\ backup_dirs[ctx_backup_path[1]].exists
         /\ backup_dirs[ctx_backup_path[1]].content = boot_pre.content

\* a run writes backup_path only as an upgrade with local_mode false whose
\* backup copy succeeded; after a failed copy the key is as it was
BackupPathWrittenOnlyAfterCopy ==
    (boot_runs' = boot_runs + 1 /\ ~boot_copied') => ctx_backup_path' = ctx_backup_path

\* C29: after BootstrapStep.run, is_upgrade is True iff .claude existed
\* before the run, all five subdirectories exist, and backup_path is written
\* only by an upgrade with local_mode false whose backup copy succeeded, in
\* which case it names an existing directory holding a complete copy of the
\* pre-run .claude; a failed copy leaves backup_path unwritten and the run
\* still completes
C29_RunLeavesUpgradeFlagDirsAndBackup ==
    [](boot_last = "run" => AfterRun) /\ [][BackupPathWrittenOnlyAfterCopy]_vars

\* a run over an installation with a settings file has made its backup
C29_Witness ==
    /\ boot_last = "run"
    /\ boot_copied
    /\ "settings.json" \in boot_pre.content
    /\ "skills" \notin boot_pre.content

\* an upgrade whose backup copy failed has completed, backup_path unwritten
C29_FailedCopyReached ==
    /\ boot_last = "run"
    /\ boot_pre.exists /\ ~local_mode /\ ~boot_copied
    /\ ctx_backup_path = <<>>

(***************************************************************************)
(* Installer step runner: properties                                       *)
(***************************************************************************)
LastEvent == events[Len(events)]

\* the last call was check(ctx) of step s
JustChecked(s) ==
    /\ events # <<>>
    /\ LastEvent.op = "check"
    /\ LastEvent.step = s

\* C11: check(ctx) of the Bootstrap, Dependencies and ShellConfig steps
\* returns False in every state, before and after any number of runs, and is
\* read-only: the call changes nothing of what the steps have done to
\* ctx.config and the filesystem.
C11_CheckFalseAndReadOnly ==
    /\ [](\A k \in 1..Len(events) :
            (events[k].op = "check" /\ events[k].step \in AlwaysRun)
                => ~events[k].result)
    /\ [][runner_pc = "check" => UNCHANGED <<ran, run_completed>>]_vars

\* C11 witness: in a second invocation, with all three steps run before,
\* ShellConfig's check has returned False.
C11_Witness ==
    /\ invocations = 2
    /\ AlwaysRun \subseteq ran
    /\ JustChecked("shell_config")
    /\ ~LastEvent.result

\* C12 as stated: for every concrete step, once run(ctx) has completed, a
\* subsequent check(ctx) returns true.
C12_CheckTrueAfterRun ==
    \A s \in StepNameSet : (JustChecked(s) /\ s \in ran) => LastEvent.result

\* C12 amended: for the steps that run on every invocation (Bootstrap,
\* Dependencies, ShellConfig) check(ctx) returns false also after run(ctx)
\* has completed, and the runner runs the step again.
C12_AlwaysRunStepsUnsatisfiedAfterRun ==
    \A s \in AlwaysRun :
        (JustChecked(s) /\ s \in ran) => (~LastEvent.result /\ runner_pc = "run")

\* C12 witness: Bootstrap has run, a later invocation has just checked it.
C12_Witness ==
    /\ invocations = 2
    /\ JustChecked("bootstrap")
    /\ "bootstrap" \in ran

IsCheck(e) == e.op = "check"

IsCompletedRun(e) == e.op = "run" /\ e.result

IsRollback(e) == e.op = "rollback"

Reverse(s) == [k \in 1..Len(s) |-> s[Len(s) + 1 - k]]

StepsOf(es) == [k \in 1..Len(es) |-> es[k].step]

\* C13: the runner visits the steps in the fixed order; for each step it
\* calls check first and run only if check returned false; if a run fails,
\* rollback is called on exactly the steps whose run had completed, in
\* reverse order of completion, and no later step is checked or run.
C13_RunnerOrderAndRollback ==
    LET n == Len(events)
        checks == SelectSeq(events, IsCheck)
        failedAt == {p \in 1..n : events[p].op = "run" /\ ~events[p].result}
    IN  /\ \A k \in 1..Len(checks) : k <= Len(Steps) /\ checks[k].step = Steps[k]
        /\ \A p \in 1..n :
             events[p].op = "run" =>
                 /\ p > 1
                 /\ events[p - 1] = Event("check", events[p].step, FALSE)
        /\ \A p \in 1..n :
             (events[p].op = "check" /\ ~events[p].result /\ p < n) =>
                 (events[p + 1].op = "run" /\ events[p + 1].step = events[p].step)
        /\ \A p \in 1..n : events[p].op = "rollback" => failedAt # {}
        /\ \A p \in failedAt :
             LET done == StepsOf(SelectSeq(SubSeq(events, 1, p), IsCompletedRun))
                 rb == StepsOf(SubSeq(events, p + 1, n))
             IN  /\ \A q \in (p + 1)..n : events[q].op = "rollback"
                 /\ Len(rb) <= Len(done)
                 /\ rb = SubSeq(Reverse(done), 1, Len(rb))
                 /\ runner_pc = "failed" => rb = Reverse(done)
        /\ runner_pc = "done" =>
             (Len(checks) = Len(Steps) /\ failedAt = {})

\* C13 witness: a run failed after two steps had completed and one had been
\* skipped, and the rollback is over.
C13_Witness ==
    /\ runner_pc = "failed"
    /\ Len(run_completed) >= 2
    /\ \E k \in 1..Len(events) : events[k].op = "check" /\ events[k].result
    /\ Len(SelectSeq(events, IsRollback)) = Len(run_completed)

\* no backup is there to restore: none was recorded, or the recorded
\* directory no longer exists
NothingToRestore ==
    \/ ctx_backup_path = <<>>
    \/ ~backup_dirs[ctx_backup_path[1]].exists

\* C14: BootstrapStep.rollback is safe to call in any state: when no
\* backup_path was recorded (fresh install, local mode, failed copy) or the
\* recorded backup directory no longer exists (as after a successful
\* restore), the call leaves the filesystem and ctx.config unchanged.
C14_RollbackWithoutBackupIsNoOp ==
    [][(boot_last' = "rollback" /\ NothingToRestore) =>
          UNCHANGED <<claude_dir, backup_dirs, ctx_is_upgrade, ctx_backup_path>>]_vars

\* C14 witness: a second rollback after a successful restore, the recorded
\* backup directory gone and .claude as restored.
C14_Witness ==
    /\ boot_last = "rollback"
    /\ boot_rollbacks = 2
    /\ boot_copied
    /\ ctx_backup_path # <<>>
    /\ ~backup_dirs[ctx_backup_path[1]].exists
    /\ claude_dir = boot_pre

(***************************************************************************)
(* Session end hook: properties                                            *)
(***************************************************************************)
\* C15: session_end.main issues the worker-stop command exactly once when
\* the active session count is 0 or 1, issues none when the count is 2 or
\* more or CLAUDE_PLUGIN_ROOT is unset, and returns 0 in all of these cases.
C15_StopOnlyForLastSession ==
    end_rc # <<>> =>
        /\ end_rc = <<0>>
        /\ (plugin_root /\ end_count \in {0, 1}) => stop_calls = 1
        /\ (~plugin_root \/ end_count >= 2) => stop_calls = 0

\* C15 witness: a call that counted exactly one session issued the stop.
C15_Witness ==
    /\ end_rc = <<0>>
    /\ plugin_root
    /\ end_count = 1
    /\ stop_calls = 1

(***************************************************************************)
(* File checker hook: properties                                           *)
(***************************************************************************)
\* the edited file exists and its extension has a checker
Supported ==
    /\ edited_file.given
    /\ edited_file.exists
    /\ suffix(edited_file.name) \in {".py", ".ts", ".go"}

Count(lines, x) == Cardinality({i \in 1..Len(lines) : lines[i] = x})

\* the file ends with the alias block and holds its lines nowhere else
OneAliasBlock ==
    LET block == get_alias_lines(shell_type)
        n == Len(rc_file)
    IN  /\ n >= Len(block)
        /\ SubSeq(rc_file, n - Len(block) + 1, n) = block
        /\ \A k \in 1..Len(block) : Count(rc_file, block[k]) = 1
        /\ ~alias_exists_in_file(SubSeq(rc_file, 1, n - Len(block)))

\* C17: alias idempotence: after ShellConfigStep.run has been applied to an
\* rc file one or more times, from any initial content (a current alias
\* block, any mix of legacy marker, alias and function forms), the file
\* holds exactly one sentinel marker and one alias block, and a second run
\* leaves the file content unchanged.
C17_AliasIdempotence ==
    /\ [](sc_last = "run" =>
            /\ Count(rc_file, CLAUDE_ALIAS_MARKER) = 1
            /\ OneAliasBlock)
    /\ [][(sc_last = "run" /\ sc_last' = "run" /\ sc_runs' = sc_runs + 1)
             => rc_file' = rc_file]_vars

\* C17 witness: two runs on a file that began with a legacy block and the
\* user's own lines around it.
C17_Witness ==
    /\ sc_last = "run"
    /\ sc_runs = 2
    /\ rc_before = rc_file
    /\ rc_file = <<"# before", "# after">> \o get_alias_lines(shell_type)

RECURSIVE BlockStateAfter(_, _)
\* the kind of tracked function block open after the first i lines
BlockStateAfter(lines, i) ==
    IF i = 0 THEN ""
    ELSE LET prev == BlockStateAfter(lines, i - 1)
         IN  IF prev # "" THEN (IF closes(lines[i], prev) THEN "" ELSE prev)
             ELSE opens(lines[i])

\* line i is a marker line, a tracked alias line or part of a tracked
\* function block
Offending(lines, i) ==
    \/ BlockStateAfter(lines, i - 1) # ""
    \/ is_legacy(lines[i])

\* the file without its offending lines, the others in their order
WithoutOffending(lines) ==
    LET Keep(i) == ~Offending(lines, i)
    IN  lines_at(lines, SelectSeq([i \in 1..Len(lines) |-> i], Keep))

\* C18: remove_old_alias is surgical and agrees with detection: it returns
\* True exactly when alias_exists_in_file was true; it then deletes only the
\* marker lines, tracked alias lines and tracked function blocks, leaves
\* every other line in its order and content, and alias_exists_in_file is
\* False afterwards; when it returns False the file is unchanged.
C18_RemovalIsSurgical ==
    sc_last = "remove" =>
        /\ rm_result = alias_exists_in_file(rc_before)
        /\ rm_result =>
             /\ rc_file = WithoutOffending(rc_before)
             /\ ~alias_exists_in_file(rc_file)
        /\ ~rm_result => rc_file = rc_before

\* C18 witness: a marker and a multi-line function between two lines of the
\* user's; only those two lines are left.
C18_Witness ==
    /\ sc_last = "remove"
    /\ rm_result
    /\ rc_before = <<"# before", CLAUDE_ALIAS_MARKER, "claude() {", "# after", "}", "# after">>
    /\ rc_file = <<"# before", "# after">>

(***************************************************************************)
(* Installer preferences: properties                                       *)
(***************************************************************************)
\* C19: config round trip: for every input mapping, save_config followed by
\* load_config yields a mapping whose key set is exactly VALID_CONFIG_KEYS
\* intersected with the input keys, with the saved values; save_config alone
\* never writes a key outside VALID_CONFIG_KEYS to config.json and
\* load_config alone never returns one.
C19_ConfigRoundTrip ==
    /\ cfg_last = "save" =>
         (config_json.exists /\ DOMAIN config_json.object \subseteq VALID_CONFIG_KEYS)
    /\ cfg_last = "load" => DOMAIN load_result \subseteq VALID_CONFIG_KEYS
    /\ (cfg_last = "load" /\ cfg_prev = "save") =>
         /\ DOMAIN load_result = VALID_CONFIG_KEYS \cap DOMAIN saved_input
         /\ \A k \in DOMAIN load_result : load_result[k] = saved_input[k]

\* C19 witness: a mapping with an allowed and a foreign key was saved and
\* loaded back, the allowed key alone returned.
C19_Witness ==
    /\ cfg_last = "load"
    /\ cfg_prev = "save"
    /\ DOMAIN saved_input = {"enable_python", "enable_agent_browser"}
    /\ DOMAIN load_result = {"enable_python"}

(***************************************************************************)
(* Rule builder: properties                                                *)
(***************************************************************************)
IsRuleSegment(seg) == seg.kind = "rule"

\* the files of a listing, as a set
FilesOf(listing) == {listing[i] : i \in 1..Len(listing)}

\* the document holds the content of each readable rule of the listing
\* exactly once and of no other rule, in the order of the stems, with one
\* divider and nothing else between consecutive rules
WellAssembled(doc, listing) ==
    LET segs == SelectSeq(doc, IsRuleSegment)
        at == {p \in 1..Len(doc) : doc[p].kind = "rule"}
        readable == {f \in FilesOf(listing) : f.readable}
    IN  /\ Len(segs) = Cardinality(readable)
        /\ \A f \in readable :
             Cardinality({k \in 1..Len(segs) :
                            segs[k].text = content_rstrip(read_text(f))}) = 1
        /\ \A k \in 1..(Len(segs) - 1) :
             LexLess(segs[k].text.origin[2], segs[k + 1].text.origin[2])
        /\ \A p \in at :
             (\E q \in at : q > p) =>
                 /\ p + 2 \in at
                 /\ doc[p + 1].kind = "divider"

\* C20: for every set of rule files in a source directory the generated
\* document contains each rule's content exactly once, in lexicographic
\* order of filename stem, with exactly one divider line between
\* consecutive rules, whatever the order in which the directory lists the
\* files; standard rules appear only in CLAUDE.md and custom rules only in
\* CLAUDE.local.md.
C20_RulesSortedOnceEach ==
    rb_pc = "done" =>
        /\ WellAssembled(claude_md, rule_listing.standard)
        /\ WellAssembled(claude_local_md, rule_listing.custom)
        /\ \A p \in 1..Len(claude_md) :
             claude_md[p].kind = "rule" => claude_md[p].text.origin[1] = "standard"
        /\ \A p \in 1..Len(claude_local_md) :
             claude_local_md[p].kind = "rule" => claude_local_md[p].text.origin[1] = "custom"

\* C20 witness: the directory listed b before a, both readable, and a custom
\* rule beside them; the documents are built.
C20_Witness ==
    /\ rb_pc = "done"
    /\ Len(rule_listing.standard) = 2
    /\ rule_listing.standard[1].stem = <<"b">>
    /\ rule_listing.standard[2].stem = <<"a">>
    /\ rule_listing.standard[1].readable
    /\ rule_listing.standard[2].readable
    /\ Len(rule_listing.custom) = 1
    /\ rule_listing.custom[1].readable
    /\ Len(claude_md) = 6

\* the two generated files
Outputs == <<claude_md, claude_local_md>>

\* C21: rule assembly is a pure regeneration: with the rule files unchanged,
\* every build leaves both outputs exactly as the first build wrote them,
\* header included, whatever the outputs held before it (a second build
\* changes nothing, a hand edit is fully overwritten)
C21_BuildIsPureRegeneration ==
    rb_pc = "done" => Outputs = rb_first

\* a second build has run over a hand-edited output
C21_Witness ==
    /\ rb_pc = "done"
    /\ rb_builds = 2
    /\ rb_edits = 1
    /\ Len(claude_md) > 2

(***************************************************************************)
(* Comment stripping: properties                                           *)
(***************************************************************************)
\* what the row of a file is to become: cut before a comment that matches no
\* preserve pattern, gone when nothing but blanks precedes it, else as it was
stripped_row(row) ==
    LET c == comment_col(row)
    IN  IF c >= 0 /\ ~preserve_re_search(row[c + 1])
        THEN IF atoms_rstrip(SubSeq(row, 1, c)) # <<>>
             THEN atoms_rstrip(SubSeq(row, 1, c)) \o <<"NL">>
             ELSE <<>>
        ELSE row

RECURSIVE stripped_rows(_)
stripped_rows(rows) ==
    IF rows = <<>> THEN <<>> ELSE stripped_row(Head(rows)) \o stripped_rows(Tail(rows))

\* C22: strip_python_comments removes every comment that matches no preserve
\* pattern and keeps every other one: a removed comment with content before
\* it cuts its line to that content, one alone on its line takes the line
\* with it, every other line (a '#' in a string literal too) stays as it
\* was, and a file that cannot be tokenized is left unchanged
C22_StripRemovesExactlyPlainComments ==
    strip_pc = "done" =>
        py_source = IF generate_tokens(py_original) = "ok"
                    THEN stripped_rows(token_rows(py_original))
                    ELSE py_original

\* the same, for the files that hold no form feed
C22_HoldsWithoutFormFeed ==
    (strip_pc = "done" /\ \A i \in 1..Len(py_original) : py_original[i] # "FF") =>
        py_source = IF generate_tokens(py_original) = "ok"
                    THEN stripped_rows(token_rows(py_original))
                    ELSE py_original

(***************************************************************************)
(* check_python: properties                                                *)
(***************************************************************************)
\* a tool that ran reported at least one issue
ToolReported ==
    /\ chk_pc = "returned"
    /\ ~is_test_name(chk_name)
    /\ \/ chk_ruff_bin /\ chk_ruff > 0
       \/ chk_pyright_bin /\ chk_pyright > 0

\* what the claim says of a call that has returned
OutcomeAsStated ==
    /\ chk_source = file_after_strip(chk_before)
    /\ (chk_return.reason # NoReason <=> ToolReported)
    /\ (ToolReported => chk_return.status = 2)
    /\ (is_test_name(chk_name) \/ ~(chk_ruff_bin \/ chk_pyright_bin) =>
            chk_return = Returned2(0, NoReason))
    /\ (chk_pc = "returned" /\ ~is_test_name(chk_name)
          /\ (chk_ruff_bin \/ chk_pyright_bin) /\ ~ToolReported =>
            chk_return = Returned2(2, NoReason))

\* C27: check_python returns a non-empty reason if and only if ruff or
\* basedpyright reported an issue, and then with status 2; it returns (0, "")
\* for a name holding "test_" or "spec" and when neither tool is on PATH, and
\* (2, "") when tools ran and found nothing; the comments are stripped before
\* each of these outcomes
C27_CheckPythonOutcomes ==
    chk_pc # "start" => OutcomeAsStated

\* the same, for the calls that return
C27_HoldsWhenStripReturns ==
    chk_pc = "returned" => OutcomeAsStated

(***************************************************************************)
(* Sessions ending side by side: properties                                *)
(***************************************************************************)
\* every session has run its session-end logic
AllSessionsEnded == \A s \in SessionIds : ses_pc[s] \in {"none", "done"}

\* once every session has run its session-end logic, one of them has issued
\* the worker stop
WorkerStoppedOnceAllEnded == AllSessionsEnded => stops # {}

\* no stop was issued while a session that had not begun ending was active
NoStopBeforeOthersEnd == ~early_stop

\* C30: under every interleaving of sessions that end side by side, once
\* every session has run its session-end logic some session-end has issued
\* the worker stop, and no stop is issued while a session that has not begun
\* ending is still active
C30_LastSessionStopsWorker ==
    /\ WorkerStoppedOnceAllEnded
    /\ NoStopBeforeOthersEnd

====
